---- MODULE Spec2Model ----
(***************************************************************************)
(* Session engine of cineio: GameManager (socket handlers), the            *)
(* GameSession document methods and the User compatibility oracle.         *)
(*                                                                         *)
(* Every handler is an async function: it runs atomically from one await   *)
(* to the next.  An action of this module is one such segment: the effect  *)
(* of the awaited persistence operation followed by the synchronous code   *)
(* up to the next await.  `sess` and `users` are the persisted documents;  *)
(* a handler works on the copy it loaded (`gs`), as the code does.         *)
(***************************************************************************)
EXTENDS Integers, Sequences, FiniteSets, TLC

(***************************************************************************)
(* Bounds of the model                                                     *)
(***************************************************************************)
MaxMoves == 2
MaxJoins == 2
MaxTicks == 2
MaxLeaves == 1
MaxAwaitMs == 1
MaxSpawns == 2
MaxFailures == 1

(***************************************************************************)
(* Program constants                                                       *)
(***************************************************************************)
worldWidth == 1000
maxMovieOrbs == 50
orbSpawnRate == 30000
worldHeight == 1000
defaultSize == 20
defaultPoints == 100
defaultElo == 1200
minSize == 15
duration == 7
absorptionCooldown == 5000
spawnProtectionMs == 5000
battleHaltMs == 600
battleCooldownMs == 2000
absorptionPointGain == 20
absorptionPointLoss == 10
singleOrbPoints == 5
singleOrbSize == 8
bundleOrbPoints == 15
bundleOrbSize == 12
orbCheckThrottleMs == 200
orbFailToastMs == 2000
kFactor == 32
eloFloor == 100
missingShown == 5
DayMs == 24 * 60 * 60 * 1000

Users == {"u1", "u2"}
Sockets == {"s1", "s2"}
NoSock == "none"
NoUser == "none"
SessionId == "S"

Max(a, b) == IF a >= b THEN a ELSE b
Min(a, b) == IF a <= b THEN a ELSE b

(***************************************************************************)
(* Movies.  A title is a sequence of characters, so that the string keys   *)
(* the code builds are built here the same way.                            *)
(***************************************************************************)
Movie(t, y, u) == [title |-> t, year |-> y, url |-> u]

MovieA == Movie(<<"A">>, 1999, "")
MovieB == Movie(<<"B">>, 2001, "")
MovieC == Movie(<<"A", "-">>, 19, "")
MovieD == Movie(<<"A">>, -19, "")
Movies == {MovieA, MovieB, MovieC, MovieD}

RECURSIVE Digits(_)
Digits(n) ==
  LET d == <<"0", "1", "2", "3", "4", "5", "6", "7", "8", "9">>[(n % 10) + 1]
  IN IF n < 10 THEN <<d>> ELSE Digits(n \div 10) \o <<d>>

\* String(year) for a Number holding an integer
YearString(n) == IF n < 0 THEN <<"-">> \o Digits(-n) ELSE Digits(n)

\* `${m.title}-${m.year}`
TitleYearKey(m) == m.title \o <<"-">> \o YearString(m.year)

\* [...(this.watchedMovies || []), ...(this.fiveStarMovies || [])] as keys
MySeen(user) == {TitleYearKey(m) : m \in user.watchedMovies \cup user.fiveStarMovies}

\* the reduced pool when it is not empty, else all five-star movies
ComparisonSet(user) ==
  IF user.fightMoviePool # {} THEN user.fightMoviePool ELSE user.fiveStarMovies

canAbsorb(this, targetUser) ==
  \A m \in ComparisonSet(targetUser) : TitleYearKey(m) \in MySeen(this)

\* the five-star films of the target the user has no film of the same title
\* and year of
getMissingMovies(this, targetUser) ==
  {m \in targetUser.fiveStarMovies : TitleYearKey(m) \notin MySeen(this)}

\* .slice(0, n) of a list of films: the list when it has no more than n films,
\* else n of them
sliceAll(S, n) == S
slice(S, n) ==
  IF Cardinality(S) <= n THEN S
  ELSE CHOOSE T \in SUBSET S : Cardinality(T) = n

(***************************************************************************)
(* Rating update.  Math.round(r + K * (actual - expected)) with            *)
(* expected = 1 / (1 + 10^((opp - r) / 400)): for an integer rating r the  *)
(* result is r plus a step function of opp - r; EloSteps[n] is the least   *)
(* difference at which a win earns at least n points.                      *)
(***************************************************************************)
EloSteps ==
  <<-719, -523, -428, -364, -314, -273, -237, -205, -176, -149, -124, -100,
    -77, -54, -32, -10, 11, 33, 55, 78, 101, 125, 150, 177, 206, 238, 274,
    315, 365, 429, 524, 720>>

WinGain(d) == Cardinality({n \in 1..kFactor : d >= EloSteps[n]})

updateElo(eloRating, opponentElo, won) ==
  LET gain == WinGain(opponentElo - eloRating)
  IN Max(eloFloor, eloRating + (IF won THEN gain ELSE gain - kFactor))

\* GameManager lines 275-280: winnerUser.updateElo(loserElo, true) and
\* loserUser.updateElo(winnerElo, false), with both ratings read beforehand;
\* the new ratings of the mover and of the target
RateBothInTurn(moverElo, targetElo, moverWins) ==
  IF moverWins
  THEN LET m == updateElo(moverElo, targetElo, TRUE)
       IN <<m, updateElo(targetElo, m, FALSE)>>
  ELSE LET t == updateElo(targetElo, moverElo, TRUE)
       IN <<updateElo(moverElo, t, FALSE), t>>
RateBoth(moverElo, targetElo, moverWins) ==
  <<updateElo(moverElo, targetElo, moverWins),
    updateElo(targetElo, moverElo, ~moverWins)>>

(***************************************************************************)
(* Documents                                                               *)
(***************************************************************************)
\* playerSchema with its defaults; a timestamp of 0 is an unset Date
NewPlayer(id, userId, socketId, x, y, protectedUntil) ==
  [id |-> id, userId |-> userId, socketId |-> socketId, x |-> x, y |-> y,
   size |-> defaultSize, isAlive |-> TRUE, absorptions |-> 0,
   points |-> defaultPoints, spawnProtectedUntil |-> protectedUntil,
   battleHaltUntil |-> 0, battleCooldownUntil |-> 0]

\* movieOrbSchema; a 'single' orb as spawnMovieOrb configures it
SingleOrb(id, x, y, movies) ==
  [id |-> id, x |-> x, y |-> y, size |-> singleOrbSize,
   pointValue |-> singleOrbPoints, movies |-> movies]

\* a 'bundle' orb, of several films
BundleOrb(id, x, y, movies) ==
  [id |-> id, x |-> x, y |-> y, size |-> bundleOrbSize,
   pointValue |-> bundleOrbPoints, movies |-> movies]

UserDoc(watched, fiveStar, pool) ==
  [eloRating |-> defaultElo, gamesPlayed |-> 0, totalAbsorptions |-> 0,
   totalAbsorbed |-> 0, watchedMovies |-> watched, fiveStarMovies |-> fiveStar,
   fightMoviePool |-> pool]

\* The least of the indices S of the matching elements, 0 when there is none
\* (Array.prototype.find / findIndex, and the positional operator $).
FirstIdx(S) == IF S = {} THEN 0 ELSE CHOOSE i \in S : \A j \in S : i <= j

IdxBySocket(players, s) == FirstIdx({i \in 1..Len(players) : players[i].socketId = s})
IdxByUser(players, u) == FirstIdx({i \in 1..Len(players) : players[i].userId = u})

\* Math.max(0, Math.min(max, v))
ClampNoFloor(v, max) == Min(max, v)
Clamp(v, max) == Max(0, Min(max, v))

\* Math.sqrt(dx*dx + dy*dy) <= (sizeA + sizeB) / 2, without the root
Overlaps(ax, ay, asize, bx, by, bsize) ==
  4 * ((ax - bx) * (ax - bx) + (ay - by) * (ay - by))
     <= (asize + bsize) * (asize + bsize)

\* x.getTime() > ts for a Date that may be unset
InFuture(until, ts) == until # 0 /\ until > ts

\* player.spawnProtectedUntil && player.spawnProtectedUntil.getTime() > nowTs
SpawnProtectedNever(player, ts) == FALSE
SpawnProtected(player, ts) == InFuture(player.spawnProtectedUntil, ts)

\* gameSessionSchema.methods.getActivePlayers
getActivePlayers(players) ==
  SelectSeq(players, LAMBDA p : p.isAlive /\ p.socketId # NoSock)

\* gameSessionSchema.methods.shouldEnd, at time ts
shouldEnd(gs, ts) ==
  IF gs.status # "active" THEN FALSE
  ELSE ts - gs.startTime > gs.duration * DayMs

\* the winner endSession picks: reduce((prev, cur) => prev.size > cur.size ? prev : cur)
RECURSIVE LargestFrom(_, _, _)
LargestFrom(ps, i, prev) ==
  IF i > Len(ps) THEN prev
  ELSE LargestFrom(ps, i + 1, IF prev.size > ps[i].size THEN prev ELSE ps[i])

\* gameSessionSchema.methods.endSession on a loaded document
endSession(gs) ==
  LET act == getActivePlayers(gs.players)
  IN [gs EXCEPT !.status = "ended",
                !.winner = IF Len(act) > 0
                           THEN LargestFrom(act, 2, act[1]).userId
                           ELSE gs.winner]

\* gameSessionSchema.methods.absorb on a loaded document, by array index
absorbNoFloor(players, a, v) ==
  [players EXCEPT
     ![a].points = players[a].points + absorptionPointGain,
     ![a].size = players[a].size + (absorptionPointGain \div 2),
     ![a].absorptions = players[a].absorptions + 1,
     ![v].points = players[v].points - absorptionPointLoss,
     ![v].size = players[v].size - ((absorptionPointLoss * 3) \div 10)]
absorb(players, a, v) ==
  [players EXCEPT
     ![a].points = players[a].points + absorptionPointGain,
     ![a].size = players[a].size + (absorptionPointGain \div 2),
     ![a].absorptions = players[a].absorptions + 1,
     ![v].points = Max(0, players[v].points - absorptionPointLoss),
     ![v].size = Max(minSize, players[v].size - ((absorptionPointLoss * 3) \div 10))]

VARIABLES
  now,                  \* Date.now()
  sess,                 \* the persisted GameSession document
  users,                \* the persisted User documents
  playerSessions,       \* GameManager.playerSessions: socket id -> session id
  absorptionCooldowns,  \* GameManager.absorptionCooldowns, per user of the session
  orbSpawnTimers,       \* the interval timers set for the session, and the
                        \* seeding runs begun for it
  orbCheckThrottle,     \* GameManager.orbCheckThrottle
  orbCheckInFlight,     \* GameManager.orbCheckInFlight
  orbFailToastCooldown, \* GameManager.orbFailToastCooldown
  handlers,             \* the handler invocations in flight
  nextId,               \* source of player _id values
  started,              \* events taken so far, per kind
  emitted,              \* the socket events sent by the latest step
  ledger,               \* per player _id: the points every applied credit and loss add up to
  creditedTo,           \* per orb id: the player _ids credited for consuming it
  winTimes,             \* per user: the times at which a win of theirs was persisted
  conn,                 \* per connection: the user it joined as, whether the join
                        \* succeeded, whether the connection has dropped
  verdict               \* the latest answer of the compatibility oracle

vars ==
  <<now, sess, users, playerSessions, absorptionCooldowns, orbSpawnTimers,
    orbCheckThrottle, orbCheckInFlight, orbFailToastCooldown, handlers, nextId,
    started, emitted, ledger, creditedTo, winTimes, verdict, conn>>

registry ==
  <<playerSessions, absorptionCooldowns, orbSpawnTimers, orbCheckThrottle,
    orbCheckInFlight, orbFailToastCooldown>>

ghosts == <<ledger, creditedTo, winTimes>>

HandlerIds == {1, 2}
OrbIds == {"o1", "o2"}
Idle == [kind |-> "idle"]

\* a new invocation takes the lowest free slot
FreeSlot(k) ==
  /\ handlers[k] = Idle
  /\ \A j \in HandlerIds : j < k => handlers[j] # Idle

\* a socket event: its name, the socket (or "room", "others") it goes to, the
\* player or orb ids it is about
Event(name, to, about) == [name |-> name, to |-> to, about |-> about]

(***************************************************************************)
(* handlePlayerMove                                                        *)
(***************************************************************************)
MoveInputs == {<<100, 100>>, <<-50, 2000>>}

\* the fields of a User document an encounter reads and writes
UserStats(u) ==
  [eloRating |-> users[u].eloRating,
   totalAbsorptions |-> users[u].totalAbsorptions,
   totalAbsorbed |-> users[u].totalAbsorbed]

NoStats == [eloRating |-> 0, totalAbsorptions |-> 0, totalAbsorbed |-> 0]

MoveHandler(s, gs, pi) ==
  [kind |-> "move", pc |-> "pos", sock |-> s, gs |-> gs, pi |-> pi, ti |-> 0,
   nowTs |-> 0, absNow |-> 0, mu |-> NoStats, tu |-> NoStats,
   moverWins |-> FALSE, pend |-> {}, eg |-> gs, ei |-> 0, ug |-> 0,
   ret |-> "orb", orbId |-> "", newPoints |-> 0, newSize |-> 0,
   moverMissing |-> {}, targetMissing |-> {}]

\* checkOrbConsumption up to its first await (lines 796-806 and 844), then the
\* 'player-moved' broadcast of handlePlayerMove (lines 361-365).
StartOrbCheck(k, hr, evs) ==
  LET s == hr.gs.players[hr.pi].socketId
      moved == Event("player-moved", "others", <<hr.gs.players[hr.pi].id>>)
  IN /\ emitted' = evs \cup {moved}
     /\ IF orbCheckInFlight[s]
        THEN /\ handlers' = [handlers EXCEPT ![k] = Idle]
             /\ UNCHANGED <<orbCheckInFlight, orbCheckThrottle>>
        ELSE IF orbCheckThrottle[s] # 0 /\ now - orbCheckThrottle[s] < orbCheckThrottleMs
        THEN /\ handlers' = [handlers EXCEPT ![k] = Idle]
             /\ UNCHANGED <<orbCheckInFlight, orbCheckThrottle>>
        ELSE /\ handlers' = [handlers EXCEPT ![k] = [hr EXCEPT !.pc = "seen"]]
             /\ orbCheckInFlight' = [orbCheckInFlight EXCEPT ![s] = TRUE]
             /\ orbCheckThrottle' = [orbCheckThrottle EXCEPT ![s] = now]

\* lines 101-127: the mapping lookup, findOne, the player lookup, the halt
\* check and the clamp, up to the position update being issued
MoveFind(k, s, xy) ==
  /\ FreeSlot(k)
  /\ started.moves < MaxMoves
  /\ ~conn[s].dropped
  /\ playerSessions[s] = SessionId
  /\ started' = [started EXCEPT !.moves = @ + 1]
  /\ emitted' = {}
  /\ LET pi == IdxBySocket(sess.players, s)
     IN IF pi = 0 \/ ~sess.players[pi].isAlive
           \/ InFuture(sess.players[pi].battleHaltUntil, now)
        THEN UNCHANGED handlers
        ELSE LET gs == [sess EXCEPT !.players[pi].x = Clamp(xy[1], worldWidth),
                                    !.players[pi].y = Clamp(xy[2], worldHeight)]
             IN handlers' = [handlers EXCEPT ![k] = MoveHandler(s, gs, pi)]
  /\ UNCHANGED <<now, sess, users, registry, nextId, ghosts, verdict, conn>>

\* lines 147-166: the first candidate of the loaded document the mover may fight
Blocked(player, target, ts) ==
  \/ SpawnProtected(target, ts)
  \/ InFuture(target.battleHaltUntil, ts) \/ InFuture(player.battleHaltUntil, ts)
  \/ InFuture(target.battleCooldownUntil, ts) \/ InFuture(player.battleCooldownUntil, ts)

FirstTargetLast(gs, pi, s, ts) ==
  LET player == gs.players[pi]
      S == {i \in 1..Len(gs.players) :
              /\ gs.players[i].isAlive
              /\ gs.players[i].socketId # NoSock
              /\ gs.players[i].socketId # s
              /\ ~Blocked(player, gs.players[i], ts)
              /\ Overlaps(player.x, player.y, player.size,
                          gs.players[i].x, gs.players[i].y, gs.players[i].size)}
  IN IF SpawnProtected(player, ts) \/ S = {} THEN 0
     ELSE CHOOSE i \in S : \A j \in S : i >= j

FirstTarget(gs, pi, s, ts) ==
  LET player == gs.players[pi]
      S == {i \in 1..Len(gs.players) :
              /\ gs.players[i].isAlive
              /\ gs.players[i].socketId # NoSock
              /\ gs.players[i].socketId # s
              /\ ~Blocked(player, gs.players[i], ts)
              /\ Overlaps(player.x, player.y, player.size,
                          gs.players[i].x, gs.players[i].y, gs.players[i].size)}
  IN IF SpawnProtected(player, ts) \/ S = {} THEN 0
     ELSE CHOOSE i \in S : \A j \in S : i <= j

\* lines 130-172: the position update lands; then the encounter scan
MovePos(k) ==
  LET h == handlers[k]
      me == h.gs.players[h.pi]
      di == IdxBySocket(sess.players, h.sock)
      ti == FirstTarget(h.gs, h.pi, h.sock, now)
      haltUntil == now + battleHaltMs
  IN /\ h.kind = "move" /\ h.pc = "pos"
     /\ sess' = IF di = 0 THEN sess
                ELSE [sess EXCEPT !.players[di].x = me.x, !.players[di].y = me.y]
     /\ IF ti # 0
        THEN /\ handlers' = [handlers EXCEPT ![k] =
                  [h EXCEPT !.pc = "halt", !.ti = ti, !.nowTs = now,
                            !.gs.players[h.pi].battleHaltUntil = haltUntil,
                            !.gs.players[ti].battleHaltUntil = haltUntil]]
             /\ emitted' = {}
             /\ UNCHANGED <<orbCheckInFlight, orbCheckThrottle>>
        ELSE StartOrbCheck(k, h, {})
     /\ UNCHANGED <<now, users, playerSessions, absorptionCooldowns, orbSpawnTimers,
                    orbFailToastCooldown, nextId, started, ghosts, verdict, conn>>

\* lines 175-206: the halt timers land on both records, by _id; battle-start
MoveHalt(k) ==
  LET h == handlers[k]
      me == h.gs.players[h.pi]
      it == h.gs.players[h.ti]
  IN /\ h.kind = "move" /\ h.pc = "halt"
     /\ sess' = [sess EXCEPT !.players =
                  [i \in 1..Len(sess.players) |->
                     IF sess.players[i].id \in {me.id, it.id}
                     THEN [sess.players[i] EXCEPT !.battleHaltUntil = me.battleHaltUntil]
                     ELSE sess.players[i]]]
     /\ emitted' = {Event("battle-start", me.socketId, <<me.id, it.id>>),
                    Event("battle-start", it.socketId, <<me.id, it.id>>)}
     /\ handlers' = [handlers EXCEPT ![k] = [h EXCEPT !.pc = "loadMover"]]
     /\ UNCHANGED <<now, users, registry, nextId, started, ghosts, verdict, conn>>

\* line 206: User.findById(player.userId)
MoveLoadMover(k) ==
  LET h == handlers[k]
  IN /\ h.kind = "move" /\ h.pc = "loadMover"
     /\ handlers' = [handlers EXCEPT ![k] =
          [h EXCEPT !.pc = "loadTarget", !.mu = UserStats(h.gs.players[h.pi].userId)]]
     /\ emitted' = {}
     /\ UNCHANGED <<now, sess, users, registry, nextId, started, ghosts, verdict, conn>>

\* lines 207-280: the target's user is loaded and the outcome decided, up to
\* the write the outcome needs
MoveLoadTarget(k) ==
  LET h == handlers[k]
      me == h.gs.players[h.pi]
      it == h.gs.players[h.ti]
      tu == UserStats(it.userId)
      moverCanAbsorb == canAbsorb(users[me.userId], users[it.userId])
      targetCanAbsorb == canAbsorb(users[it.userId], users[me.userId])
      cooldownUntil == h.nowTs + battleCooldownMs
      lastAbsorption == absorptionCooldowns[me.userId]
      winnerSocketId == IF moverCanAbsorb THEN h.sock ELSE it.socketId
      loserSocketId == IF winnerSocketId = h.sock THEN it.socketId ELSE h.sock
      a == IdxBySocket(h.gs.players, winnerSocketId)
      v == IdxBySocket(h.gs.players, loserSocketId)
      moverWins == winnerSocketId = h.sock
      mu2 == [h.mu EXCEPT
                !.eloRating = RateBoth(h.mu.eloRating, tu.eloRating, moverWins)[1],
                !.totalAbsorptions = IF moverWins THEN @ + 1 ELSE @,
                !.totalAbsorbed = IF moverWins THEN @ ELSE @ + 1]
      tu2 == [tu EXCEPT
                !.eloRating = RateBoth(h.mu.eloRating, tu.eloRating, moverWins)[2],
                !.totalAbsorptions = IF moverWins THEN @ ELSE @ + 1,
                !.totalAbsorbed = IF moverWins THEN @ + 1 ELSE @]
  IN /\ h.kind = "move" /\ h.pc = "loadTarget"
     /\ IF ~moverCanAbsorb /\ ~targetCanAbsorb
        THEN /\ handlers' = [handlers EXCEPT ![k] =
                  [h EXCEPT !.pc = "stalemate", !.tu = tu,
                            !.moverMissing =
                               slice(getMissingMovies(users[me.userId], users[it.userId]),
                                     missingShown),
                            !.targetMissing =
                               slice(getMissingMovies(users[it.userId], users[me.userId]),
                                     missingShown),
                            !.gs.players[h.pi].battleCooldownUntil = cooldownUntil,
                            !.gs.players[h.ti].battleCooldownUntil = cooldownUntil]]
             /\ emitted' = {}
             /\ UNCHANGED <<orbCheckInFlight, orbCheckThrottle>>
        ELSE IF lastAbsorption # 0 /\ now - lastAbsorption < absorptionCooldown
        THEN StartOrbCheck(k, [h EXCEPT !.tu = tu], {})
        ELSE IF a = 0 \/ v = 0 \/ ~h.gs.players[v].isAlive
        THEN StartOrbCheck(k, [h EXCEPT !.tu = tu], {})
        ELSE /\ handlers' = [handlers EXCEPT ![k] =
                  [h EXCEPT !.pc = "persist", !.mu = mu2, !.tu = tu2,
                            !.moverWins = moverWins, !.absNow = now,
                            !.pend = {"winnerUser", "loserUser", "session"},
                            !.gs.players = absorb(h.gs.players, a, v)]]
             /\ emitted' = {}
             /\ UNCHANGED <<orbCheckInFlight, orbCheckThrottle>>
     /\ UNCHANGED <<now, sess, users, playerSessions, absorptionCooldowns,
                    orbSpawnTimers, orbFailToastCooldown, nextId, started, ghosts,
                    verdict, conn>>

\* lines 218-250: the stalemate cooldowns land on both records; battle-missing
MoveStalemate(k) ==
  LET h == handlers[k]
      me == h.gs.players[h.pi]
      it == h.gs.players[h.ti]
  IN /\ h.kind = "move" /\ h.pc = "stalemate"
     /\ sess' = [sess EXCEPT !.players =
                  [i \in 1..Len(sess.players) |->
                     IF sess.players[i].id = me.id
                     THEN [sess.players[i] EXCEPT !.battleCooldownUntil = me.battleCooldownUntil]
                     ELSE IF sess.players[i].id = it.id
                     THEN [sess.players[i] EXCEPT !.battleCooldownUntil = it.battleCooldownUntil]
                     ELSE sess.players[i]]]
     /\ StartOrbCheck(k, h,
          {Event("battle-missing", me.socketId, <<me.id, it.id, h.moverMissing>>),
           Event("battle-missing", it.socketId, <<me.id, it.id, h.targetMissing>>)})
     /\ UNCHANGED <<now, users, playerSessions, absorptionCooldowns, orbSpawnTimers,
                    orbFailToastCooldown, nextId, started, ghosts, verdict, conn>>

\* handlers[k] with its invocation of GameManager.endSession over: a move goes
\* on to its orb check, a sweep is done
EndReturn(k, hr, evs) ==
  IF hr.ret = "orb"
  THEN StartOrbCheck(k, hr, evs)
  ELSE /\ handlers' = [handlers EXCEPT ![k] = Idle]
       /\ emitted' = evs
       /\ UNCHANGED <<orbCheckInFlight, orbCheckThrottle>>

\* lines 282-348: one of the three writes of Promise.all lands; after the last
\* one the cooldown is recorded, the outcome is broadcast and shouldEnd is asked
MovePersist(k, which) ==
  LET h == handlers[k]
      w == IF h.moverWins THEN h.pi ELSE h.ti
      l == IF h.moverWins THEN h.ti ELSE h.pi
      winner == h.gs.players[w]
      loser == h.gs.players[l]
      winnerUser == IF h.moverWins THEN h.mu ELSE h.tu
      loserUser == IF h.moverWins THEN h.tu ELSE h.mu
      left == h.pend \ {which}
      evs == {Event("player-absorbed", "room", <<winner.id, loser.id>>),
              Event("you-were-absorbed", loser.socketId, <<winner.id, loser.id>>)}
             \cup (IF h.moverWins
                   THEN {Event("absorption-successful", h.sock, <<winner.id, loser.id>>)}
                   ELSE {})
  IN /\ h.kind = "move" /\ h.pc = "persist" /\ which \in h.pend
     /\ users' =
          IF which = "winnerUser"
          THEN [users EXCEPT ![winner.userId].eloRating = winnerUser.eloRating,
                             ![winner.userId].totalAbsorptions = winnerUser.totalAbsorptions]
          ELSE IF which = "loserUser"
          THEN [users EXCEPT ![loser.userId].eloRating = loserUser.eloRating,
                             ![loser.userId].totalAbsorbed = loserUser.totalAbsorbed]
          ELSE users
     /\ IF which = "session"
        THEN /\ sess' = [sess EXCEPT !.players =
                  [i \in 1..Len(sess.players) |->
                     IF sess.players[i].id = winner.id
                     THEN [sess.players[i] EXCEPT !.points = winner.points,
                                                  !.size = winner.size,
                                                  !.absorptions = winner.absorptions]
                     ELSE IF sess.players[i].id = loser.id
                     THEN [sess.players[i] EXCEPT !.points = loser.points,
                                                  !.size = loser.size]
                     ELSE sess.players[i]]]
             /\ ledger' = [ledger EXCEPT
                  ![winner.id] = @ + absorptionPointGain,
                  ![loser.id] = Max(0, @ - absorptionPointLoss)]
             /\ winTimes' = [winTimes EXCEPT ![winner.userId] = Append(@, now)]
             /\ UNCHANGED creditedTo
        ELSE UNCHANGED <<sess, ghosts>>
     /\ IF left # {}
        THEN /\ handlers' = [handlers EXCEPT ![k] = [h EXCEPT !.pend = left]]
             /\ emitted' = {}
             /\ UNCHANGED <<absorptionCooldowns, orbCheckInFlight, orbCheckThrottle>>
        ELSE /\ absorptionCooldowns' =
                  [absorptionCooldowns EXCEPT ![winner.userId] = h.absNow]
             /\ IF shouldEnd(h.gs, now)
                THEN /\ handlers' = [handlers EXCEPT ![k] =
                          [h EXCEPT !.pc = "endFind", !.pend = {}, !.ret = "orb"]]
                     /\ emitted' = evs
                     /\ UNCHANGED <<orbCheckInFlight, orbCheckThrottle>>
                ELSE StartOrbCheck(k, [h EXCEPT !.pend = {}], evs)
     /\ UNCHANGED <<now, playerSessions, orbSpawnTimers, orbFailToastCooldown, nextId,
                    started, verdict, conn>>

(***************************************************************************)
(* GameManager.endSession and cleanupSessions                              *)
(***************************************************************************)
\* lines 589-597: the sweep finds the session active and due
SweepFind(k) ==
  /\ FreeSlot(k)
  /\ sess.status = "active" /\ shouldEnd(sess, now)
  /\ handlers' = [handlers EXCEPT ![k] =
       [MoveHandler(NoSock, sess, 0) EXCEPT !.kind = "sweep", !.pc = "endFind",
                                            !.ret = "done"]]
  /\ emitted' = {}
  /\ UNCHANGED <<now, sess, users, registry, nextId, started, ghosts, verdict, conn>>

\* lines 556-559: findOne, then endSession() on the loaded document
EndFind(k) ==
  LET h == handlers[k]
  IN /\ h.kind \in {"move", "sweep"} /\ h.pc = "endFind"
     /\ handlers' = [handlers EXCEPT ![k] =
          [h EXCEPT !.pc = "endSave", !.eg = endSession(sess)]]
     /\ emitted' = {}
     /\ UNCHANGED <<now, sess, users, registry, nextId, started, ghosts, verdict, conn>>

\* line 560: save() writes the paths endSession() assigned
EndSave(k) ==
  LET h == handlers[k]
      done == Len(h.eg.players) = 0
      evs == IF done THEN {Event("session-ended", "room", <<>>)} ELSE {}
  IN /\ h.kind \in {"move", "sweep"} /\ h.pc = "endSave"
     /\ sess' = [sess EXCEPT
                   !.status = h.eg.status,
                   !.winner = IF Len(getActivePlayers(h.eg.players)) > 0
                              THEN h.eg.winner ELSE @]
     /\ IF done
        THEN EndReturn(k, h, evs)
        ELSE /\ handlers' = [handlers EXCEPT ![k] =
                  [h EXCEPT !.pc = "endUserRead", !.ei = 1]]
             /\ emitted' = evs
             /\ UNCHANGED <<orbCheckInFlight, orbCheckThrottle>>
     /\ UNCHANGED <<now, users, playerSessions, absorptionCooldowns, orbSpawnTimers,
                    orbFailToastCooldown, nextId, started, ghosts, verdict, conn>>

\* line 565: User.findById(player.userId) for the next player of the loop
EndUserRead(k) ==
  LET h == handlers[k]
  IN /\ h.kind \in {"move", "sweep"} /\ h.pc = "endUserRead"
     /\ handlers' = [handlers EXCEPT ![k] =
          [h EXCEPT !.pc = "endUserSave",
                    !.ug = users[h.eg.players[h.ei].userId].gamesPlayed]]
     /\ emitted' = {}
     /\ UNCHANGED <<now, sess, users, registry, nextId, started, ghosts, verdict, conn>>

\* lines 567-582: gamesPlayed += 1 is saved; after the last player, session-ended
EndUserSave(k) ==
  LET h == handlers[k]
      last == h.ei = Len(h.eg.players)
  IN /\ h.kind \in {"move", "sweep"} /\ h.pc = "endUserSave"
     /\ users' = [users EXCEPT ![h.eg.players[h.ei].userId].gamesPlayed = h.ug + 1]
     /\ IF last
        THEN EndReturn(k, h, {Event("session-ended", "room", <<>>)})
        ELSE /\ handlers' = [handlers EXCEPT ![k] =
                  [h EXCEPT !.pc = "endUserRead", !.ei = h.ei + 1]]
             /\ emitted' = {}
             /\ UNCHANGED <<orbCheckInFlight, orbCheckThrottle>>
     /\ UNCHANGED <<now, sess, playerSessions, absorptionCooldowns, orbSpawnTimers,
                    orbFailToastCooldown, nextId, started, ghosts, verdict, conn>>

(***************************************************************************)
(* checkOrbConsumption                                                     *)
(***************************************************************************)
\* String.prototype.toLowerCase on the characters titles are made of
Lower(c) == IF c = "A" THEN "a" ELSE IF c = "B" THEN "b" ELSE c

IsAlnum(c) ==
  c \in {"a", "b", "0", "1", "2", "3", "4", "5", "6", "7", "8", "9"}

\* .toLowerCase().replace(/[^a-z0-9]+/g, ' ').trim(): gap is whether a run of
\* other characters separates acc from the next kept character
RECURSIVE NormFrom(_, _, _, _)
NormFrom(t, i, acc, gap) ==
  IF i > Len(t) THEN acc
  ELSE IF IsAlnum(Lower(t[i]))
       THEN NormFrom(t, i + 1,
                     (IF gap /\ acc # <<>> THEN acc \o <<" ">> ELSE acc) \o <<Lower(t[i])>>,
                     FALSE)
       ELSE NormFrom(t, i + 1, acc, TRUE)

normalizeTitle(t) == NormFrom(t, 1, <<>>, FALSE)

\* movieKeyCandidates: the 'url:', 'ty:' and 't:' keys of a movie
Key(kind, title, year, url) == [kind |-> kind, title |-> title, year |-> year, url |-> url]

movieKeyCandidates(m) ==
  LET title == normalizeTitle(m.title)
  IN (IF m.url # "" THEN {Key("url", <<>>, 0, m.url)} ELSE {})
     \cup (IF title # <<>> /\ m.year # 0 THEN {Key("ty", title, m.year, "")} ELSE {})
     \cup (IF title # <<>> THEN {Key("t", title, 0, "")} ELSE {})

\* getSeenSet: the keys of everything the user watched or rated five stars
getSeenSet(user) ==
  UNION {movieKeyCandidates(m) : m \in user.watchedMovies \cup user.fiveStarMovies}

seenHas(seenSet, m) == movieKeyCandidates(m) \cap seenSet # {}

\* line 876: the films of the orb the seen set has no key of
missingMoviesAll(orb, seenSet) == orb.movies
missingMovies(orb, seenSet) == {m \in orb.movies : ~seenHas(seenSet, m)}

\* the last orb of the loaded pool the player overlaps
FirstOrbLast(gs, player) ==
  LET S == {i \in 1..Len(gs.movieOrbs) :
              Overlaps(player.x, player.y, player.size,
                       gs.movieOrbs[i].x, gs.movieOrbs[i].y, gs.movieOrbs[i].size)}
  IN IF S = {} THEN 0 ELSE CHOOSE i \in S : \A j \in S : i >= j

\* lines 846-851: the first orb of the loaded pool the player overlaps
FirstOrb(gs, player) ==
  FirstIdx({i \in 1..Len(gs.movieOrbs) :
              Overlaps(player.x, player.y, player.size,
                       gs.movieOrbs[i].x, gs.movieOrbs[i].y, gs.movieOrbs[i].size)})

\* finally { this.orbCheckInFlight.set(player.socketId, false) }
OrbCheckDone(k, s) ==
  /\ handlers' = [handlers EXCEPT ![k] = Idle]
  /\ orbCheckInFlight' = [orbCheckInFlight EXCEPT ![s] = FALSE]

\* lines 844-899: the seen set is there; the scan, up to the consuming update
MoveSeen(k) ==
  LET h == handlers[k]
      me == h.gs.players[h.pi]
      seenSet == getSeenSet(users[me.userId])
      oi == FirstOrb(h.gs, me)
      orb == h.gs.movieOrbs[oi]
      lastFail == orbFailToastCooldown[<<me.socketId, orb.id>>]
  IN /\ h.kind = "move" /\ h.pc = "seen"
     /\ IF oi = 0
        THEN /\ OrbCheckDone(k, me.socketId)
             /\ emitted' = {}
             /\ UNCHANGED orbFailToastCooldown
        ELSE IF \E m \in orb.movies : ~seenHas(seenSet, m)
        THEN /\ OrbCheckDone(k, me.socketId)
             /\ IF lastFail = 0 \/ now - lastFail >= orbFailToastMs
                THEN /\ orbFailToastCooldown' =
                          [orbFailToastCooldown EXCEPT ![<<me.socketId, orb.id>>] = now]
                     /\ emitted' = {Event("orb-consumption-failed", h.sock,
                          <<orb.id, missingMovies(orb, seenSet)>>)}
                ELSE /\ emitted' = {}
                     /\ UNCHANGED orbFailToastCooldown
        ELSE /\ handlers' = [handlers EXCEPT ![k] =
                  [h EXCEPT !.pc = "consume", !.orbId = orb.id,
                            !.newPoints = me.points + orb.pointValue,
                            !.newSize = me.size + ((orb.pointValue * 3) \div 10)]]
             /\ emitted' = {}
             /\ UNCHANGED <<orbCheckInFlight, orbFailToastCooldown>>
     /\ UNCHANGED <<now, sess, users, playerSessions, absorptionCooldowns,
                    orbSpawnTimers, orbCheckThrottle, nextId, started, ghosts, verdict, conn>>

\* lines 902-935: findOneAndUpdate pulls the orb and sets the points and size of
\* the first record with the socket id, when there is one; then the notices
MoveConsume(k) ==
  LET h == handlers[k]
      me == h.gs.players[h.pi]
      di == IdxBySocket(sess.players, me.socketId)
      oi == FirstIdx({i \in 1..Len(h.gs.movieOrbs) : h.gs.movieOrbs[i].id = h.orbId})
  IN /\ h.kind = "move" /\ h.pc = "consume"
     /\ IF di # 0
        THEN /\ sess' = [sess EXCEPT
                  !.movieOrbs = SelectSeq(@, LAMBDA o : o.id # h.orbId),
                  !.players[di].points = h.newPoints,
                  !.players[di].size = h.newSize]
             /\ ledger' = [ledger EXCEPT
                  ![sess.players[di].id] = @ + h.gs.movieOrbs[oi].pointValue]
             /\ creditedTo' = [creditedTo EXCEPT ![h.orbId] = @ \cup {sess.players[di].id}]
             /\ UNCHANGED winTimes
        ELSE UNCHANGED <<sess, ghosts>>
     /\ OrbCheckDone(k, me.socketId)
     /\ emitted' = {Event("orb-consumed", h.sock, <<me.id>>),
                    Event("orb-removed", "room", <<h.orbId>>)}
     /\ UNCHANGED <<now, users, playerSessions, absorptionCooldowns, orbSpawnTimers,
                    orbCheckThrottle, orbFailToastCooldown, nextId, started, verdict, conn>>

(***************************************************************************)
(* A write of a movement event that the database rejects. The position     *)
(* update is awaited under the outer try of handlePlayerMove alone; the     *)
(* writes of the encounter are under the inner try, whose catch logs and    *)
(* lets the handler go on to the orb check; checkOrbConsumption is called   *)
(* without await and has a finally and no catch.                            *)
(***************************************************************************)
\* a rejection is taken while fewer than MaxFailures have been
Rejects ==
  /\ started.failures < MaxFailures
  /\ started' = [started EXCEPT !.failures = @ + 1]

\* lines 130-138 and 367-369: the position update rejects; the outer catch
MovePosFails(k) ==
  /\ handlers[k].kind = "move" /\ handlers[k].pc = "pos"
  /\ Rejects
  /\ handlers' = [handlers EXCEPT ![k] = Idle]
  /\ emitted' = {}
  /\ UNCHANGED <<now, sess, users, registry, nextId, ghosts, verdict, conn>>

\* lines 175-189 and 353-365: the halt update rejects; the inner catch, then
\* the orb check and the broadcast
MoveHaltFails(k) ==
  /\ handlers[k].kind = "move" /\ handlers[k].pc = "halt"
  /\ Rejects
  /\ StartOrbCheck(k, handlers[k], {})
  /\ UNCHANGED <<now, sess, users, playerSessions, absorptionCooldowns, orbSpawnTimers,
                 orbFailToastCooldown, nextId, ghosts, verdict, conn>>

\* lines 218-232 and 353-365: the stalemate update rejects
MoveStalemateFails(k) ==
  /\ handlers[k].kind = "move" /\ handlers[k].pc = "stalemate"
  /\ Rejects
  /\ StartOrbCheck(k, handlers[k], {})
  /\ UNCHANGED <<now, sess, users, playerSessions, absorptionCooldowns, orbSpawnTimers,
                 orbFailToastCooldown, nextId, ghosts, verdict, conn>>

\* lines 282-305 and 353-365: one of the three writes of Promise.all rejects
\* after the other two have landed; nothing undoes those
MovePersistFails(k, which) ==
  /\ handlers[k].kind = "move" /\ handlers[k].pc = "persist"
  /\ handlers[k].pend = {which}
  /\ Rejects
  /\ StartOrbCheck(k, [handlers[k] EXCEPT !.pend = {}], {})
  /\ UNCHANGED <<now, sess, users, playerSessions, absorptionCooldowns, orbSpawnTimers,
                 orbFailToastCooldown, nextId, ghosts, verdict, conn>>

\* lines 902-908 and 933-935: the consuming update rejects; the finally block,
\* and the promise nobody awaits rejects: the process gets 'unhandledRejection'
MoveConsumeFails(k) ==
  LET h == handlers[k]
  IN /\ h.kind = "move" /\ h.pc = "consume"
     /\ Rejects
     /\ OrbCheckDone(k, h.gs.players[h.pi].socketId)
     /\ emitted' = {Event("unhandledRejection", "process", <<>>)}
     /\ UNCHANGED <<now, sess, users, playerSessions, absorptionCooldowns, orbSpawnTimers,
                    orbCheckThrottle, orbFailToastCooldown, nextId, ghosts, verdict, conn>>

(***************************************************************************)
(* handlePlayerJoin, the HTTP join route and handlePlayerDisconnect.       *)
(* save() sends the paths the handler modified: a push onto players is a   *)
(* $push that increments the document version and asks nothing of it; an   *)
(* assignment inside a player record is a $set of players.<i>.<field> that *)
(* only matches the version the handler loaded (VersionError otherwise);   *)
(* status and startTime are plain $set.                                    *)
(***************************************************************************)
\* Math.random() * width, Math.random() * height: any point of the world
SpawnInputs == {<<0, 999>>, <<110, 110>>}

\* gameSessionSchema.methods.addPlayer on a loaded document
addPlayer(gs, userId, socketId, id, xy, ts) ==
  LET ei == IdxByUser(gs.players, userId)
  IN IF ei # 0
     THEN [gs EXCEPT !.players[ei].socketId = socketId, !.players[ei].isAlive = TRUE]
     ELSE [gs EXCEPT !.players =
             Append(@, NewPlayer(id, userId, socketId, xy[1], xy[2], ts + spawnProtectionMs))]

\* 'waiting' becomes 'active' with the start time
Activate(gs, ts) == [gs EXCEPT !.status = "active", !.startTime = ts]

\* at: the Date addPlayer took, for lastActive or for the protection window
JoinHandler(s, u, gs, ei, activated, http) ==
  [kind |-> "join", pc |-> "save", sock |-> s, user |-> u, gs |-> gs, ei |-> ei,
   activated |-> activated, http |-> http, at |-> now]

\* gameSession.status === 'ended'
SessionEndedNever(gs) == FALSE
SessionEnded(gs) == gs.status = "ended"

\* GameManager lines 23-32: a join for a session id that no session has:
\* findOne answers null
JoinMissing(s) ==
  /\ started.joins < MaxJoins
  /\ ~conn[s].dropped
  /\ started' = [started EXCEPT !.joins = @ + 1, !.missing = @ + 1]
  /\ emitted' = {Event("error", s, <<"Game session not found">>)}
  /\ UNCHANGED <<now, sess, users, registry, handlers, nextId, ghosts, verdict, conn>>

\* GameManager lines 23-48: findOne, the ended check, addPlayer, activation
JoinFind(k, s, u, xy) ==
  LET ei == IdxByUser(sess.players, u)
      added == addPlayer(sess, u, s, nextId, xy, now)
      activated == sess.status = "waiting"
      gs == IF activated THEN Activate(added, now) ELSE added
  IN /\ FreeSlot(k)
     /\ started.joins < MaxJoins
     /\ ~conn[s].dropped
     /\ started' = [started EXCEPT !.joins = @ + 1]
     /\ IF SessionEnded(sess)
        THEN /\ emitted' = {Event("error", s, <<"Game session has ended">>)}
             /\ UNCHANGED <<handlers, nextId, conn>>
        ELSE /\ handlers' = [handlers EXCEPT ![k] = JoinHandler(s, u, gs, ei, activated, FALSE)]
             /\ nextId' = IF ei = 0 THEN nextId + 1 ELSE nextId
             /\ emitted' = {}
             /\ conn' = [conn EXCEPT ![s].user = u]
     /\ UNCHANGED <<now, sess, users, registry, ghosts, verdict>>

\* routes lines 72-100: findOne, the ended check, addPlayer(user._id,
\* user.username, null), activation when nobody is active
HttpJoinFind(k, u, xy) ==
  LET ei == IdxByUser(sess.players, u)
      added == addPlayer(sess, u, NoSock, nextId, xy, now)
      activated == sess.status = "waiting" /\ Len(getActivePlayers(sess.players)) = 0
      gs == IF activated THEN Activate(added, now) ELSE added
  IN /\ FreeSlot(k)
     /\ started.joins < MaxJoins
     /\ started' = [started EXCEPT !.joins = @ + 1]
     /\ IF SessionEnded(sess)
        THEN /\ emitted' = {Event("http-400", u, <<"Game session has ended">>)}
             /\ UNCHANGED <<handlers, nextId>>
        ELSE /\ handlers' = [handlers EXCEPT ![k] = JoinHandler(NoSock, u, gs, ei, activated, TRUE)]
             /\ nextId' = IF ei = 0 THEN nextId + 1 ELSE nextId
             /\ emitted' = {}
     /\ UNCHANGED <<now, sess, users, registry, ghosts, verdict, conn>>

\* the write of save() for a join or a disconnect: the document it leaves
\* when it matches, given the record index the handler assigned into (0: it
\* pushed a new record, the last of its copy)
Saved(h) ==
  LET base == IF h.kind = "join" /\ h.activated
              THEN Activate(sess, h.gs.startTime) ELSE sess
  IN IF h.ei = 0
     THEN [base EXCEPT !.players = Append(@, h.gs.players[Len(h.gs.players)]),
                       !.v = @ + 1]
     ELSE [base EXCEPT !.players[h.ei].socketId = h.gs.players[h.ei].socketId,
                       !.players[h.ei].isAlive = h.gs.players[h.ei].isAlive]

\* GameManager lines 604-606 and 705-793: nothing when the map has the
\* session; else the seeding run begins and the interval is set and stored
NoTimer == [intervals |-> 0, seedings |-> 0]
TimerRunning == [intervals |-> 1, seedings |-> 1]

startOrbSpawningAgain(timers) ==
  [intervals |-> timers.intervals + 1, seedings |-> timers.seedings + 1]
startOrbSpawning(timers) ==
  IF timers.intervals > 0 THEN timers
  ELSE [intervals |-> timers.intervals + 1, seedings |-> timers.seedings + 1]

VersionMatches(h) == h.ei = 0 \/ sess.v = h.gs.v

\* GameManager lines 49-93 and routes lines 100-116: save(), then the mapping,
\* the orb timer and the notices
JoinSave(k) ==
  LET h == handlers[k]
      me == h.gs.players[IF h.ei = 0 THEN Len(h.gs.players) ELSE h.ei]
  IN /\ h.kind = "join" /\ h.pc = "save"
     /\ handlers' = [handlers EXCEPT ![k] = Idle]
     /\ IF VersionMatches(h)
        THEN /\ sess' = Saved(h)
             /\ IF h.http
                THEN /\ emitted' = {Event("http-200", h.user, <<me.id>>)}
                     /\ UNCHANGED <<playerSessions, orbSpawnTimers, conn>>
                ELSE /\ playerSessions' = [playerSessions EXCEPT ![h.sock] = SessionId]
                     /\ orbSpawnTimers' = startOrbSpawning(orbSpawnTimers)
                     /\ emitted' = {Event("game-joined", h.sock, <<me.id>>),
                                    Event("player-joined", "others", <<me.id>>)}
                     /\ conn' = [conn EXCEPT ![h.sock].joined = TRUE]
        ELSE /\ emitted' = {Event(IF h.http THEN "http-500" ELSE "error", h.sock,
                                   <<"Failed to join game">>)}
             /\ UNCHANGED <<sess, playerSessions, orbSpawnTimers, conn>>
     /\ UNCHANGED <<now, users, absorptionCooldowns, orbCheckThrottle, orbCheckInFlight,
                    orbFailToastCooldown, nextId, started, ghosts, verdict>>

\* gameSessionSchema.methods.removePlayer on a loaded document
removePlayer(gs, socketId) ==
  LET i == IdxBySocket(gs.players, socketId)
  IN IF i = 0 THEN gs ELSE [gs EXCEPT !.players[i].socketId = NoSock]

\* GameManager lines 509-516: the connection drops; the mapping lookup (a
\* connection without a mapping is done at once), findOne, removePlayer
DiscFind(k, s) ==
  /\ FreeSlot(k)
  /\ started.leaves < MaxLeaves
  /\ ~conn[s].dropped
  /\ started' = [started EXCEPT !.leaves = @ + 1]
  /\ conn' = [conn EXCEPT ![s].dropped = TRUE]
  /\ IF playerSessions[s] = SessionId
     THEN handlers' = [handlers EXCEPT ![k] =
            [kind |-> "leave", pc |-> "save", sock |-> s, gs |-> removePlayer(sess, s),
             ei |-> IdxBySocket(sess.players, s)]]
     ELSE UNCHANGED handlers
  /\ emitted' = {}
  /\ UNCHANGED <<now, sess, users, registry, nextId, ghosts, verdict>>

\* GameManager lines 517-527: save(), the notice, the mapping is dropped; a
\* failed save leaves the mapping
DiscSave(k) ==
  LET h == handlers[k]
  IN /\ h.kind = "leave" /\ h.pc = "save"
     /\ handlers' = [handlers EXCEPT ![k] = Idle]
     /\ IF h.ei = 0
        THEN /\ playerSessions' = [playerSessions EXCEPT ![h.sock] = "none"]
             /\ emitted' = {Event("player-disconnected", "others", <<>>)}
             /\ UNCHANGED sess
        ELSE IF sess.v = h.gs.v
        THEN /\ sess' = Saved(h)
             /\ playerSessions' = [playerSessions EXCEPT ![h.sock] = "none"]
             /\ emitted' = {Event("player-disconnected", "others", <<>>)}
        ELSE /\ emitted' = {}
             /\ UNCHANGED <<sess, playerSessions>>
     /\ UNCHANGED <<now, users, absorptionCooldowns, orbSpawnTimers, orbCheckThrottle,
                    orbCheckInFlight, orbFailToastCooldown, nextId, started, ghosts,
                    verdict, conn>>

(***************************************************************************)
(* Time.  The clock moves to an instant at which a timer the program keeps *)
(* runs out: the instants at which a comparison with Date.now() changes.   *)
(* A handler's awaits take milliseconds and the timers hundreds of them or *)
(* more: the clock moves between handler invocations.                      *)
(***************************************************************************)
Deadlines ==
  UNION {{sess.players[i].spawnProtectedUntil, sess.players[i].battleHaltUntil,
          sess.players[i].battleCooldownUntil} : i \in 1..Len(sess.players)}
  \cup {absorptionCooldowns[u] + absorptionCooldown : u \in {x \in Users : absorptionCooldowns[x] # 0}}
  \cup {orbCheckThrottle[s] + orbCheckThrottleMs : s \in {x \in Sockets : orbCheckThrottle[x] # 0}}
  \cup {orbFailToastCooldown[q] + orbFailToastMs :
          q \in {x \in Sockets \X OrbIds : orbFailToastCooldown[x] # 0}}

Tick ==
  /\ started.ticks < MaxTicks
  /\ \A k \in HandlerIds : handlers[k] = Idle
  /\ \E t \in Deadlines : t > now /\ now' = t
  /\ started' = [started EXCEPT !.ticks = @ + 1]
  /\ emitted' = {}
  /\ UNCHANGED <<sess, users, registry, handlers, nextId, ghosts, verdict, conn>>

\* a millisecond passes while a handler waits for an operation
AwaitTick ==
  /\ started.ticks < MaxTicks
  /\ \E k \in HandlerIds : handlers[k] # Idle
  /\ now' = now + MaxAwaitMs
  /\ started' = [started EXCEPT !.ticks = @ + 1]
  /\ emitted' = {}
  /\ UNCHANGED <<sess, users, registry, handlers, nextId, ghosts, verdict, conn>>

\* the clock passes the end of the session's time budget: between handler
\* invocations, or during an await when that is no more than MaxAwaitMs away
Expire ==
  /\ sess.status = "active" /\ ~shouldEnd(sess, now)
  /\ now' = sess.startTime + sess.duration * DayMs + 1
  /\ (\A k \in HandlerIds : handlers[k] = Idle) \/ now' - now <= MaxAwaitMs
  /\ emitted' = {}
  /\ UNCHANGED <<sess, users, registry, handlers, nextId, started, ghosts, verdict, conn>>

(***************************************************************************)
(* spawnOrbs, the callback of the interval startOrbSpawning sets. The      *)
(* interval does not wait for the callback it started before: a callback   *)
(* begins orbSpawnRate after the present moment whatever is in flight.     *)
(* The orb is a 'single' or a 'bundle' of the players' five-star films.    *)
(***************************************************************************)
\* Math.random() * width, Math.random() * height, away from the players
OrbSpots == {<<0, 999>>, <<900, 100>>}

\* sampleK(all, k): min(k, all.length) films of all
sampleK(all, k) ==
  {S \in SUBSET all : Cardinality(S) = (IF k <= Cardinality(all) THEN k ELSE Cardinality(all))}

\* gameSessionSchema.methods.spawnMovieOrb on a loaded document: nothing when
\* the loaded pool is full
spawnMovieOrb(gs, orb) ==
  IF Len(gs.movieOrbs) >= maxMovieOrbs THEN gs
  ELSE [gs EXCEPT !.movieOrbs = Append(@, orb)]

\* lines 607-623: the interval fires, findOne answers; nothing more unless the
\* session is active; the users of the players are asked for
SpawnFind(k) ==
  /\ FreeSlot(k)
  /\ started.spawns < MaxSpawns
  /\ orbSpawnTimers.intervals > 0
  /\ started' = [started EXCEPT !.spawns = @ + 1]
  /\ now' = now + orbSpawnRate
  /\ handlers' = [handlers EXCEPT ![k] =
        IF sess.status # "active" THEN Idle
        ELSE [kind |-> "spawn", pc |-> "users", gs |-> sess,
              n |-> started.spawns + 1, orb |-> SingleOrb("none", 0, 0, {})]]
  /\ emitted' = {}
  /\ UNCHANGED <<sess, users, registry, nextId, ghosts, verdict, conn>>

\* lines 624-688: the users are there; the films, the orb, spawnMovieOrb on
\* the loaded document, and save() when it gave an orb
SpawnUsers(k) ==
  LET h == handlers[k]
      all == UNION {users[h.gs.players[i].userId].fiveStarMovies :
                      i \in 1..Len(h.gs.players)}
      id == "orb" \o ToString(h.n)
  IN /\ h.kind = "spawn" /\ h.pc = "users"
     /\ \E xy \in OrbSpots :
          \/ \E movies \in sampleK(all, 1) :
                LET orb == SingleOrb(id, xy[1], xy[2], movies)
                    gs == spawnMovieOrb(h.gs, orb)
                IN handlers' = [handlers EXCEPT ![k] =
                     IF gs = h.gs THEN Idle
                     ELSE [h EXCEPT !.pc = "save", !.gs = gs, !.orb = orb]]
          \/ \E n \in 3..5 : \E movies \in sampleK(all, n) :
                LET orb == BundleOrb(id, xy[1], xy[2], movies)
                    gs == spawnMovieOrb(h.gs, orb)
                IN handlers' = [handlers EXCEPT ![k] =
                     IF gs = h.gs THEN Idle
                     ELSE [h EXCEPT !.pc = "save", !.gs = gs, !.orb = orb]]
     /\ emitted' = {}
     /\ UNCHANGED <<now, sess, users, registry, nextId, started, ghosts, verdict, conn>>

\* lines 686-689: save() pushes the orb onto the stored pool, whatever the
\* stored document has become, and the room is told
SpawnSave(k) ==
  LET h == handlers[k]
  IN /\ h.kind = "spawn" /\ h.pc = "save"
     /\ sess' = [sess EXCEPT !.movieOrbs = Append(@, h.orb), !.v = @ + 1]
     /\ handlers' = [handlers EXCEPT ![k] = Idle]
     /\ emitted' = {Event("orb-spawned", "room", <<h.orb.id>>)}
     /\ UNCHANGED <<now, users, registry, nextId, started, ghosts, verdict, conn>>

(***************************************************************************)
(* The movement pipeline, from a session in play                           *)
(***************************************************************************)
PlayerIds == 1..(2 + MaxJoins)

\* who can absorb whom: u1 only, or neither
MovieConfigs ==
  { [u1 |-> UserDoc({MovieA, MovieB}, {MovieA}, {}), u2 |-> UserDoc({MovieB}, {MovieB}, {})],
    [u1 |-> UserDoc({MovieA}, {MovieA}, {}), u2 |-> UserDoc({MovieB}, {MovieB}, {})] }

NoVerdict == [observer |-> NoUser, target |-> NoUser, answer |-> FALSE]

InitRegistry ==
  /\ absorptionCooldowns = [u \in Users |-> 0]
  /\ orbCheckThrottle = [s \in Sockets |-> 0]
  /\ orbCheckInFlight = [s \in Sockets |-> FALSE]
  /\ orbFailToastCooldown = [q \in Sockets \X OrbIds |-> 0]
  /\ handlers = [k \in HandlerIds |-> Idle]
  /\ started = [moves |-> 0, joins |-> 0, leaves |-> 0, ticks |-> 0, missing |-> 0,
                spawns |-> 0, failures |-> 0]
  /\ emitted = {}
  /\ ledger = [i \in PlayerIds |-> defaultPoints]
  /\ creditedTo = [o \in OrbIds |-> {}]
  /\ winTimes = [u \in Users |-> <<>>]
  /\ verdict = NoVerdict
  /\ conn = [s \in Sockets |-> [user |-> NoUser, joined |-> FALSE, dropped |-> FALSE]]

\* u1 joined at 1 and u2 two seconds later, which is now
InitMove ==
  /\ now = 2001
  /\ sess = [status |-> "active", startTime |-> 1, winner |-> NoUser, v |-> 2,
             duration |-> duration,
             players |-> <<NewPlayer(1, "u1", "s1", 100, 100, 1 + spawnProtectionMs),
                           NewPlayer(2, "u2", "s2", 300, 300, 2001 + spawnProtectionMs)>>,
             movieOrbs |-> <<SingleOrb("o1", 100, 100, {MovieB})>>]
  /\ \E c \in MovieConfigs : users = [u \in Users |-> c[u]]
  /\ playerSessions = [s \in Sockets |-> SessionId]
  /\ orbSpawnTimers = TimerRunning
  /\ nextId = 3
  /\ InitRegistry

NextMove ==
  \/ \E k \in HandlerIds, s \in Sockets, xy \in MoveInputs : MoveFind(k, s, xy)
  \/ \E k \in HandlerIds : MovePos(k)
  \/ \E k \in HandlerIds : MoveHalt(k)
  \/ \E k \in HandlerIds : MoveLoadMover(k)
  \/ \E k \in HandlerIds : MoveLoadTarget(k)
  \/ \E k \in HandlerIds : MoveStalemate(k)
  \/ \E k \in HandlerIds, which \in {"winnerUser", "loserUser", "session"} : MovePersist(k, which)
  \/ \E k \in HandlerIds : MoveSeen(k)
  \/ \E k \in HandlerIds : MoveConsume(k)
  \/ Tick

SpecMove == InitMove /\ [][NextMove]_vars

\* the same while a write can be rejected
NextFail ==
  \/ NextMove
  \/ \E k \in HandlerIds : MovePosFails(k)
  \/ \E k \in HandlerIds : MoveHaltFails(k)
  \/ \E k \in HandlerIds : MoveStalemateFails(k)
  \/ \E k \in HandlerIds, which \in {"winnerUser", "loserUser", "session"} :
        MovePersistFails(k, which)
  \/ \E k \in HandlerIds : MoveConsumeFails(k)

SpecFail == InitMove /\ [][NextFail]_vars

(***************************************************************************)
(* Encounters between users of any rating: the default of a new user, or   *)
(* a rating that losses have brought to the floor or close to it.          *)
(***************************************************************************)
Ratings == {eloFloor, eloFloor + 1, eloFloor + (kFactor \div 2), defaultElo}

InitElo ==
  /\ now = 2001
  /\ sess = [status |-> "active", startTime |-> 1, winner |-> NoUser, v |-> 2,
             duration |-> duration,
             players |-> <<NewPlayer(1, "u1", "s1", 100, 100, 1 + spawnProtectionMs),
                           NewPlayer(2, "u2", "s2", 300, 300, 2001 + spawnProtectionMs)>>,
             movieOrbs |-> <<SingleOrb("o1", 100, 100, {MovieB})>>]
  /\ \E c \in MovieConfigs, r \in [Users -> Ratings] :
        users = [u \in Users |-> [c[u] EXCEPT !.eloRating = r[u]]]
  /\ playerSessions = [s \in Sockets |-> SessionId]
  /\ orbSpawnTimers = TimerRunning
  /\ nextId = 3
  /\ InitRegistry

SpecElo == InitElo /\ [][NextMove]_vars

\* the same between a user at the default and one at the default or the floor
InitRate ==
  /\ now = 2001
  /\ sess = [status |-> "active", startTime |-> 1, winner |-> NoUser, v |-> 2,
             duration |-> duration,
             players |-> <<NewPlayer(1, "u1", "s1", 100, 100, 1 + spawnProtectionMs),
                           NewPlayer(2, "u2", "s2", 300, 300, 2001 + spawnProtectionMs)>>,
             movieOrbs |-> <<SingleOrb("o1", 100, 100, {MovieB})>>]
  /\ \E c \in MovieConfigs, r \in {eloFloor, defaultElo} :
        users = [u \in Users |->
                   [c[u] EXCEPT !.eloRating = IF u = "u1" THEN defaultElo ELSE r]]
  /\ playerSessions = [s \in Sockets |-> SessionId]
  /\ orbSpawnTimers = TimerRunning
  /\ nextId = 3
  /\ InitRegistry

SpecRate == InitRate /\ [][NextMove]_vars

(***************************************************************************)
(* Encounters between players who are new, or whom losses have brought     *)
(* within one loss of the floors of points and size.                       *)
(***************************************************************************)
Standings ==
  { [points |-> defaultPoints, size |-> defaultSize],
    [points |-> absorptionPointLoss \div 2, size |-> minSize + 1] }

InitFloor ==
  /\ now = 2001
  /\ \E st \in Standings :
        sess = [status |-> "active", startTime |-> 1, winner |-> NoUser, v |-> 2,
                duration |-> duration,
                players |->
                  <<[NewPlayer(1, "u1", "s1", 100, 100, 1 + spawnProtectionMs)
                       EXCEPT !.points = st.points, !.size = st.size],
                    [NewPlayer(2, "u2", "s2", 300, 300, 2001 + spawnProtectionMs)
                       EXCEPT !.points = st.points, !.size = st.size]>>,
                movieOrbs |-> <<SingleOrb("o1", 100, 100, {MovieB})>>]
  /\ \E c \in MovieConfigs : users = [u \in Users |-> c[u]]
  /\ playerSessions = [s \in Sockets |-> SessionId]
  /\ orbSpawnTimers = TimerRunning
  /\ nextId = 3
  /\ InitRegistry

SpecFloor == InitFloor /\ [][NextMove]_vars

(***************************************************************************)
(* Three players in reach of each other: u1, then u2 ten units away, then  *)
(* a third user on a connection of its own right where u1 stands.  The     *)
(* second record is in play, or is kept out of encounters in one of the    *)
(* ways the scan looks at, or is out of reach.                             *)
(***************************************************************************)
ThirdUser == "u3"
ThirdSock == "s3"

Second(p) ==
  { p,
    [p EXCEPT !.spawnProtectedUntil = 7001 + spawnProtectionMs],
    [p EXCEPT !.battleHaltUntil = 7001 + battleHaltMs],
    [p EXCEPT !.battleCooldownUntil = 7001 + battleCooldownMs],
    [p EXCEPT !.isAlive = FALSE],
    [p EXCEPT !.socketId = NoSock],
    [p EXCEPT !.x = 300] }

InitScan ==
  /\ now = 7001
  /\ \E p2 \in Second(NewPlayer(2, "u2", "s2", 110, 100, 1 + spawnProtectionMs)) :
        sess = [status |-> "active", startTime |-> 1, winner |-> NoUser, v |-> 3,
                duration |-> duration,
                players |-> <<NewPlayer(1, "u1", "s1", 100, 100, 1 + spawnProtectionMs),
                              p2,
                              NewPlayer(3, ThirdUser, ThirdSock, 100, 100,
                                        1 + spawnProtectionMs)>>,
                movieOrbs |-> <<SingleOrb("o1", 100, 100, {MovieB})>>]
  /\ users = [u \in Users \cup {ThirdUser} |->
               IF u = "u1" THEN UserDoc({MovieA, MovieB}, {MovieA}, {})
               ELSE IF u = "u2" THEN UserDoc({MovieB}, {MovieB}, {})
               ELSE UserDoc({}, {MovieD}, {})]
  /\ playerSessions = [s \in Sockets |-> SessionId]
  /\ orbSpawnTimers = TimerRunning
  /\ nextId = 4
  /\ InitRegistry

SpecScan == InitScan /\ [][NextMove]_vars

(***************************************************************************)
(* Encounters between users of whom both, one or neither has seen the      *)
(* films of the other.                                                     *)
(***************************************************************************)
DuelConfigs ==
  MovieConfigs \cup
  { [u1 |-> UserDoc({MovieA, MovieB}, {MovieA}, {}),
     u2 |-> UserDoc({MovieA, MovieB}, {MovieB}, {})] }

InitDuel ==
  /\ now = 2001
  /\ sess = [status |-> "active", startTime |-> 1, winner |-> NoUser, v |-> 2,
             duration |-> duration,
             players |-> <<NewPlayer(1, "u1", "s1", 100, 100, 1 + spawnProtectionMs),
                           NewPlayer(2, "u2", "s2", 300, 300, 2001 + spawnProtectionMs)>>,
             movieOrbs |-> <<SingleOrb("o1", 100, 100, {MovieB})>>]
  /\ \E c \in DuelConfigs : users = [u \in Users |-> c[u]]
  /\ playerSessions = [s \in Sockets |-> SessionId]
  /\ orbSpawnTimers = TimerRunning
  /\ nextId = 3
  /\ InitRegistry

SpecDuel == InitDuel /\ [][NextMove]_vars

(***************************************************************************)
(* Stalemates, between users who miss one film of each other and between   *)
(* users of whom one misses more films than a notice shows.                *)
(***************************************************************************)
Film(n) == Movie(<<"F">> \o Digits(n), 2000 + n, "")
ManyFilms == {Film(n) : n \in 1..(missingShown + 1)}

StaleConfigs ==
  MovieConfigs \cup
  { [u1 |-> UserDoc({MovieA}, {MovieA}, {}), u2 |-> UserDoc(ManyFilms, ManyFilms, {})] }

InitStale ==
  /\ now = 2001
  /\ sess = [status |-> "active", startTime |-> 1, winner |-> NoUser, v |-> 2,
             duration |-> duration,
             players |-> <<NewPlayer(1, "u1", "s1", 100, 100, 1 + spawnProtectionMs),
                           NewPlayer(2, "u2", "s2", 300, 300, 2001 + spawnProtectionMs)>>,
             movieOrbs |-> <<SingleOrb("o1", 100, 100, {MovieB})>>]
  /\ \E c \in StaleConfigs : users = [u \in Users |-> c[u]]
  /\ playerSessions = [s \in Sockets |-> SessionId]
  /\ orbSpawnTimers = TimerRunning
  /\ nextId = 3
  /\ InitRegistry

SpecStale == InitStale /\ [][NextMove]_vars

(***************************************************************************)
(* Orbs: u1 stands on an orb of two films, u2 on an orb of one; each has   *)
(* seen some of the films, and the two stay out of each other's reach.     *)
(***************************************************************************)
\* a movement event that leaves the player where it stands
Stay(s) == IF s = "s1" THEN <<100, 100>> ELSE <<300, 300>>

SeenConfigs == SUBSET {MovieA, MovieB, MovieC}

InitOrb ==
  /\ now = 10001
  /\ sess = [status |-> "active", startTime |-> 1, winner |-> NoUser, v |-> 2,
             duration |-> duration,
             players |-> <<NewPlayer(1, "u1", "s1", 100, 100, 1 + spawnProtectionMs),
                           NewPlayer(2, "u2", "s2", 300, 300, 1 + spawnProtectionMs)>>,
             movieOrbs |-> <<BundleOrb("o1", 100, 100, {MovieA, MovieB}),
                             SingleOrb("o2", 300, 300, {MovieB})>>]
  /\ \E w \in SeenConfigs, f \in SUBSET {MovieB} :
        users = [u \in Users |-> UserDoc(w, f, {})]
  /\ playerSessions = [s \in Sockets |-> SessionId]
  /\ orbSpawnTimers = TimerRunning
  /\ nextId = 3
  /\ InitRegistry

NextOrb ==
  \/ \E k \in HandlerIds, s \in Sockets : MoveFind(k, s, Stay(s))
  \/ \E k \in HandlerIds : MovePos(k)
  \/ \E k \in HandlerIds : MoveSeen(k)
  \/ \E k \in HandlerIds : MoveConsume(k)
  \/ Tick

SpecOrb == InitOrb /\ [][NextOrb]_vars

\* the same while connections drop
NextOrbLeave ==
  \/ NextOrb
  \/ \E k \in HandlerIds, s \in Sockets : DiscFind(k, s)
  \/ \E k \in HandlerIds : DiscSave(k)

SpecOrbLeave == InitOrb /\ [][NextOrbLeave]_vars

(***************************************************************************)
(* Two orbs under one player: u1 stands within reach of both orbs of the   *)
(* pool, in either pool order.                                             *)
(***************************************************************************)
OrbPairs ==
  { <<BundleOrb("o1", 100, 100, {MovieA, MovieB}), SingleOrb("o2", 105, 100, {MovieB})>>,
    <<SingleOrb("o2", 105, 100, {MovieB}), BundleOrb("o1", 100, 100, {MovieA, MovieB})>> }

InitPair ==
  /\ now = 10001
  /\ \E pool \in OrbPairs :
        sess = [status |-> "active", startTime |-> 1, winner |-> NoUser, v |-> 2,
                duration |-> duration,
                players |-> <<NewPlayer(1, "u1", "s1", 100, 100, 1 + spawnProtectionMs),
                              NewPlayer(2, "u2", "s2", 300, 300, 1 + spawnProtectionMs)>>,
                movieOrbs |-> pool]
  /\ \E w \in SUBSET {MovieA, MovieB} :
        users = [u \in Users |-> UserDoc(w, {}, {})]
  /\ playerSessions = [s \in Sockets |-> SessionId]
  /\ orbSpawnTimers = TimerRunning
  /\ nextId = 3
  /\ InitRegistry

SpecPair == InitPair /\ [][NextOrb]_vars

(***************************************************************************)
(* A pool at its limit or one orb short of it, while the interval fires    *)
(* and u1 stands on the first orb of the pool.                             *)
(***************************************************************************)
\* an orb spawned before, out of the players' reach
Filler(i) == SingleOrb("f" \o ToString(i), 900, 900, {MovieB})

PoolOf(n) ==
  [i \in 1..n |-> IF i = 1 THEN BundleOrb("o1", 100, 100, {MovieA, MovieB}) ELSE Filler(i)]

InitCap ==
  /\ now = 10001
  /\ \E n \in {maxMovieOrbs - 1, maxMovieOrbs} :
        sess = [status |-> "active", startTime |-> 1, winner |-> NoUser, v |-> 2,
                duration |-> duration,
                players |-> <<NewPlayer(1, "u1", "s1", 100, 100, 1 + spawnProtectionMs),
                              NewPlayer(2, "u2", "s2", 300, 300, 1 + spawnProtectionMs)>>,
                movieOrbs |-> PoolOf(n)]
  /\ users = [u \in Users |-> IF u = "u1" THEN UserDoc({MovieA, MovieB}, {MovieA}, {})
                               ELSE UserDoc({MovieB}, {MovieB}, {})]
  /\ playerSessions = [s \in Sockets |-> SessionId]
  /\ orbSpawnTimers = TimerRunning
  /\ nextId = 3
  /\ InitRegistry

NextCap ==
  \/ \E k \in HandlerIds : SpawnFind(k)
  \/ \E k \in HandlerIds : SpawnUsers(k)
  \/ \E k \in HandlerIds : SpawnSave(k)
  \/ \E k \in HandlerIds, s \in Sockets : MoveFind(k, s, Stay(s))
  \/ \E k \in HandlerIds : MovePos(k)
  \/ \E k \in HandlerIds : MoveSeen(k)
  \/ \E k \in HandlerIds : MoveConsume(k)

SpecCap == InitCap /\ [][NextCap]_vars

(***************************************************************************)
(* One player on an orb whose user connects again: u1 plays on s1 and can  *)
(* join from s2 as well.                                                   *)
(***************************************************************************)
InitSolo ==
  /\ now = 10001
  /\ sess = [status |-> "active", startTime |-> 1, winner |-> NoUser, v |-> 1,
             duration |-> duration,
             players |-> <<NewPlayer(1, "u1", "s1", 100, 100, 1 + spawnProtectionMs)>>,
             movieOrbs |-> <<BundleOrb("o1", 100, 100, {MovieA, MovieB})>>]
  /\ \E w \in SUBSET {MovieA, MovieB} :
        users = [u \in Users |-> UserDoc(w, {}, {})]
  /\ playerSessions = [s \in Sockets |-> IF s = "s1" THEN SessionId ELSE "none"]
  /\ orbSpawnTimers = TimerRunning
  /\ nextId = 2
  /\ InitRegistry

NextSolo ==
  \/ \E k \in HandlerIds, s \in Sockets : MoveFind(k, s, <<100, 100>>)
  \/ \E k \in HandlerIds : MovePos(k)
  \/ \E k \in HandlerIds : MoveSeen(k)
  \/ \E k \in HandlerIds : MoveConsume(k)
  \/ \E k \in HandlerIds, s \in Sockets : JoinFind(k, s, "u1", <<100, 100>>)
  \/ \E k \in HandlerIds : JoinSave(k)
  \/ Tick
  \/ AwaitTick

SpecSolo == InitSolo /\ [][NextSolo]_vars

(***************************************************************************)
(* Joining and leaving, from a session nobody has joined yet               *)
(***************************************************************************)
InitJoin ==
  /\ now = 1
  /\ sess = [status |-> "waiting", startTime |-> 0, winner |-> NoUser, v |-> 0,
             duration |-> duration,
             players |-> <<>>, movieOrbs |-> <<>>]
  /\ users = [u \in Users |-> UserDoc({}, {}, {})]
  /\ playerSessions = [s \in Sockets |-> "none"]
  /\ orbSpawnTimers = NoTimer
  /\ nextId = 1
  /\ InitRegistry

\* joins by socket and by HTTP, and movement towards a point outside the world
NextSpawn ==
  \/ \E k \in HandlerIds, s \in Sockets, u \in Users, xy \in SpawnInputs : JoinFind(k, s, u, xy)
  \/ \E k \in HandlerIds, u \in Users, xy \in SpawnInputs : HttpJoinFind(k, u, xy)
  \/ \E k \in HandlerIds : JoinSave(k)
  \/ \E k \in HandlerIds, s \in Sockets : MoveFind(k, s, <<-50, 2000>>)
  \/ \E k \in HandlerIds : MovePos(k)
  \/ \E k \in HandlerIds : MoveSeen(k)

SpecSpawn == InitJoin /\ [][NextSpawn]_vars

\* the same with disconnections
NextJoin ==
  \/ NextSpawn
  \/ \E k \in HandlerIds, s \in Sockets : DiscFind(k, s)
  \/ \E k \in HandlerIds : DiscSave(k)

SpecJoin == InitJoin /\ [][NextJoin]_vars

(***************************************************************************)
(* The end of a session: the clock passes the time budget of a session in  *)
(* play; the sweep of every minute, joins and movement go on.              *)
(***************************************************************************)
\* u1 joined at 1 and plays alone, from one connection or the other
InitEnd ==
  /\ now = 2001
  /\ sess = [status |-> "active", startTime |-> 1, winner |-> NoUser, v |-> 1,
             duration |-> duration,
             players |-> <<NewPlayer(1, "u1", "s1", 100, 100, 1 + spawnProtectionMs)>>,
             movieOrbs |-> <<>>]
  /\ users = [u \in Users |-> UserDoc({MovieA}, {MovieA}, {})]
  /\ playerSessions = [s \in Sockets |-> IF s = "s1" THEN SessionId ELSE "none"]
  /\ orbSpawnTimers = TimerRunning
  /\ nextId = 2
  /\ InitRegistry

\* what a handler does once the operation it awaits has completed
Continue ==
  \/ \E k \in HandlerIds : MovePos(k)
  \/ \E k \in HandlerIds : MoveSeen(k)
  \/ \E k \in HandlerIds : JoinSave(k)
  \/ \E k \in HandlerIds : EndFind(k)
  \/ \E k \in HandlerIds : EndSave(k)
  \/ \E k \in HandlerIds : EndUserRead(k)
  \/ \E k \in HandlerIds : EndUserSave(k)

\* setInterval(() => this.cleanupSessions(), 60000)
Sweep == \E k \in HandlerIds : SweepFind(k)

NextEnd ==
  \/ \E k \in HandlerIds, s \in Sockets : MoveFind(k, s, <<-50, 2000>>)
  \/ \E k \in HandlerIds, s \in Sockets : JoinFind(k, s, "u1", <<110, 110>>)
  \/ \E s \in Sockets : JoinMissing(s)
  \/ Continue
  \/ Sweep
  \/ Expire

\* awaited operations complete and the interval timer keeps firing
SpecEnd ==
  InitEnd /\ [][NextEnd]_vars /\ WF_vars(Continue) /\ WF_vars(Sweep)

\* the clock passes the time budget and the sweep ends the session while the
\* orb interval fires
NextEndSpawn ==
  \/ Expire
  \/ Sweep
  \/ \E k \in HandlerIds : EndFind(k)
  \/ \E k \in HandlerIds : EndSave(k)
  \/ \E k \in HandlerIds : EndUserRead(k)
  \/ \E k \in HandlerIds : EndUserSave(k)
  \/ \E k \in HandlerIds : SpawnFind(k)
  \/ \E k \in HandlerIds : SpawnUsers(k)
  \/ \E k \in HandlerIds : SpawnSave(k)

SpecEndSpawn == InitEnd /\ [][NextEndSpawn]_vars

(***************************************************************************)
(* The life of a session, from 'waiting': joins, disconnections, the clock *)
(* passing the time budget, and the sweep.                                 *)
(***************************************************************************)
\* the session as POST /create-session made it: its duration is the number of
\* days the request gave, the default when it gave none
Durations == {0, duration}

InitLife ==
  /\ now = 1
  /\ \E d \in Durations :
       sess = [status |-> "waiting", startTime |-> 0, winner |-> NoUser, v |-> 0,
               duration |-> d, players |-> <<>>, movieOrbs |-> <<>>]
  /\ users = [u \in Users |-> UserDoc({}, {}, {})]
  /\ playerSessions = [s \in Sockets |-> "none"]
  /\ orbSpawnTimers = NoTimer
  /\ nextId = 1
  /\ InitRegistry

NextLife ==
  \/ \E k \in HandlerIds, s \in Sockets, u \in Users : JoinFind(k, s, u, <<110, 110>>)
  \/ \E k \in HandlerIds : JoinSave(k)
  \/ \E k \in HandlerIds, s \in Sockets : DiscFind(k, s)
  \/ \E k \in HandlerIds : DiscSave(k)
  \/ \E k \in HandlerIds : EndFind(k)
  \/ \E k \in HandlerIds : EndSave(k)
  \/ \E k \in HandlerIds : EndUserRead(k)
  \/ \E k \in HandlerIds : EndUserSave(k)
  \/ Sweep
  \/ Expire
  \/ AwaitTick

SpecLife == InitLife /\ [][NextLife]_vars

(***************************************************************************)
(* The end of a session with two players of any sizes, connected or not    *)
(***************************************************************************)
\* sizes a player can have: the default, after an orb, after a win
EndSizes == {defaultSize, defaultSize + ((singleOrbPoints * 3) \div 10),
             defaultSize + (absorptionPointGain \div 2)}

InitWinner ==
  /\ now = 1 + duration * DayMs + 1
  /\ \E z1 \in EndSizes, z2 \in EndSizes, c1 \in {"s1", NoSock}, c2 \in {"s2", NoSock} :
       sess = [status |-> "active", startTime |-> 1, winner |-> NoUser, v |-> 2,
               duration |-> duration,
               players |-> <<[NewPlayer(1, "u1", c1, 100, 100, 1 + spawnProtectionMs)
                                EXCEPT !.size = z1],
                             [NewPlayer(2, "u2", c2, 300, 300, 1 + spawnProtectionMs)
                                EXCEPT !.size = z2]>>,
               movieOrbs |-> <<>>]
  /\ users = [u \in Users |-> UserDoc({MovieA}, {MovieA}, {})]
  /\ playerSessions = [s \in Sockets |-> SessionId]
  /\ orbSpawnTimers = TimerRunning
  /\ nextId = 3
  /\ InitRegistry

NextWinner ==
  \/ Sweep
  \/ \E k \in HandlerIds : EndFind(k)
  \/ \E k \in HandlerIds : EndSave(k)
  \/ \E k \in HandlerIds : EndUserRead(k)
  \/ \E k \in HandlerIds : EndUserSave(k)

SpecWinner == InitWinner /\ [][NextWinner]_vars

(***************************************************************************)
(* The compatibility oracle on its own: canAbsorb asked of users with any  *)
(* lists; a fight pool is drawn from the five-star list it reduces.        *)
(***************************************************************************)
InitOracle ==
  /\ now = 1
  /\ sess = [status |-> "waiting", startTime |-> 0, winner |-> NoUser, v |-> 0,
             duration |-> duration,
             players |-> <<>>, movieOrbs |-> <<>>]
  /\ \E w \in SUBSET Movies, f \in SUBSET Movies, g \in SUBSET Movies :
       \E pool \in SUBSET g :
         users = [u \in Users |-> IF u = "u1" THEN UserDoc(w, f, {})
                                  ELSE UserDoc({}, g, pool)]
  /\ playerSessions = [s \in Sockets |-> "none"]
  /\ orbSpawnTimers = NoTimer
  /\ nextId = 1
  /\ InitRegistry

\* observer.canAbsorb(target)
Ask(o, t) ==
  /\ o # t
  /\ verdict' = [observer |-> o, target |-> t, answer |-> canAbsorb(users[o], users[t])]
  /\ UNCHANGED <<now, sess, users, registry, handlers, nextId, started, emitted, ghosts, conn>>

NextOracle == \E o \in Users, t \in Users : Ask(o, t)

SpecOracle == InitOracle /\ [][NextOracle]_vars

(***************************************************************************)
(* Properties of the movement pipeline                                     *)
(***************************************************************************)
PlayerIdxs == 1..Len(sess.players)

Connected(p) == p.isAlive /\ p.socketId # NoSock

\* the step lands the session write of a resolved encounter
EncounterLands == winTimes' # winTimes

\* the step lands an orb consumption
OrbLands == creditedTo' # creditedTo

\* C1: an orb is credited to at most one player, however many movement
\* events of players overlapping it are processed concurrently.
C1_OrbCreditedOnce ==
  \A o \in OrbIds : Cardinality(creditedTo[o]) <= 1

\* C3: no update of points is lost: the stored points of every player are
\* what the credits and losses applied to that player add up to.
C3_NoLostUpdate ==
  \A i \in PlayerIdxs : sess.players[i].points = ledger[sess.players[i].id]

EncounterEvents == {"battle-start", "battle-missing", "player-absorbed"}

\* the steps of a handler between the start of an encounter and its outcome
EncounterPcs == {"halt", "loadMover", "loadTarget", "stalemate", "persist"}

\* C4: every encounter a handler has started is between two players whose
\* protection was over at the time of the movement event; and
\* while a player is inside its spawn-protection window no step changes
\* its halt or cooldown deadline, its absorption count or its user's rating,
\* its points and size change only by an orb it consumes, and no
\* battle-start, battle-missing or player-absorbed event names it.
C4_ProtectedUntouched ==
  /\ [](\A k \in HandlerIds :
          (handlers[k].kind = "move" /\ handlers[k].pc \in EncounterPcs) =>
            LET h == handlers[k]
            IN /\ h.gs.players[h.pi].spawnProtectedUntil <= h.nowTs
               /\ h.gs.players[h.ti].spawnProtectedUntil <= h.nowTs)
  /\ [][\A i \in PlayerIdxs :
       LET p == sess.players[i]
           q == sess'.players[i]
       IN p.spawnProtectedUntil > now =>
            /\ q.battleHaltUntil = p.battleHaltUntil
            /\ q.battleCooldownUntil = p.battleCooldownUntil
            /\ q.absorptions = p.absorptions
            /\ users'[p.userId].eloRating = users[p.userId].eloRating
            /\ ~OrbLands => q.points = p.points /\ q.size = p.size
            /\ \A e \in emitted' :
                  e.name \in EncounterEvents => e.about[1] # p.id /\ e.about[2] # p.id
    ]_vars

\* a handler is past the encounter scan of a movement that put its
\* unprotected mover onto a connected, protected player
C4_Witness ==
  \E k \in HandlerIds :
    /\ handlers[k].kind = "move" /\ handlers[k].pc = "seen"
    /\ LET gs == handlers[k].gs
           me == gs.players[handlers[k].pi]
       IN /\ me.spawnProtectedUntil <= now
          /\ \E j \in 1..Len(gs.players) :
                /\ gs.players[j].id # me.id
                /\ gs.players[j].spawnProtectedUntil > now
                /\ Connected(gs.players[j])
                /\ Overlaps(me.x, me.y, me.size,
                            gs.players[j].x, gs.players[j].y, gs.players[j].size)

\* C6: when an encounter with exactly one able side is resolved, the able
\* side is the winner; the winner's stored points rise by absorptionPointGain
\* and its absorptions by one, the loser's points drop by absorptionPointLoss
\* (not below 0), and the loser stays connected and alive.
C6_OneSidedOutcome ==
  [][EncounterLands =>
       \E w, l \in PlayerIdxs :
         LET wu == sess.players[w].userId
             lu == sess.players[l].userId
         IN /\ w # l
            /\ winTimes'[wu] # winTimes[wu]
            /\ canAbsorb(users[wu], users[lu]) /\ ~canAbsorb(users[lu], users[wu])
            /\ sess'.players[w].points = sess.players[w].points + absorptionPointGain
            /\ sess'.players[w].absorptions = sess.players[w].absorptions + 1
            /\ sess'.players[l].points = Max(0, sess.players[l].points - absorptionPointLoss)
            /\ Connected(sess'.players[l])
    ]_vars

\* C7: two wins of the same user are never less than absorptionCooldown apart.
C7_WinsSpaced ==
  \A u \in Users : \A i, j \in 1..Len(winTimes[u]) :
     i < j => winTimes[u][j] - winTimes[u][i] >= absorptionCooldown

(***************************************************************************)
(* Properties of joining                                                   *)
(***************************************************************************)
\* C2: the stored position of every player is inside the world, after a
\* spawn and after any movement request.
C2_PositionsInWorld ==
  \A i \in PlayerIdxs :
    /\ 0 <= sess.players[i].x /\ sess.players[i].x <= worldWidth
    /\ 0 <= sess.players[i].y /\ sess.players[i].y <= worldHeight

\* the request to move to (-50, 2000) has been stored, as the corner (0, 1000)
C2_Witness ==
  \E i \in PlayerIdxs : sess.players[i].x = 0 /\ sess.players[i].y = worldHeight

\* C8: a session holds at most one player record per user.
C8_OneRecordPerUser ==
  \A i, j \in PlayerIdxs :
    sess.players[i].userId = sess.players[j].userId => i = j

(***************************************************************************)
(* Properties of the end of a session                                      *)
(***************************************************************************)
Expired == now - sess.startTime > sess.duration * DayMs

\* C9: a movement event that finds the session ended changes no player
\* record and consumes no orb.
C9_EndedIgnoresMoves ==
  [][\A k \in HandlerIds :
       (/\ handlers[k].kind = "move"
        /\ handlers[k].gs.status = "ended"
        /\ handlers'[k] # handlers[k])
       => sess'.players = sess.players /\ sess'.movieOrbs = sess.movieOrbs
    ]_vars

\* the step completes a join that found the session with its time up
LateJoinLands ==
  \E k \in HandlerIds :
    /\ handlers[k].kind = "join" /\ handlers'[k] = Idle
    /\ handlers[k].at - handlers[k].gs.startTime > handlers[k].gs.duration * DayMs

\* a join processed for an active session whose time is up leaves it ended
JoinEndsExpired ==
  [][(sess.status = "active" /\ LateJoinLands) => sess'.status = "ended"]_vars

\* the save of a sweep leaves the session ended
SweepEndsExpired ==
  [][\A k \in HandlerIds :
       (handlers[k].kind = "sweep" /\ handlers[k].pc = "endSave"
          /\ handlers'[k] # handlers[k])
       => sess'.status = "ended"]_vars

\* C10: when a session is active and its time is up, the next join leaves it
\* ended, and so does the next sweep; an active session whose time is up is
\* eventually ended, given that the sweep keeps running.
C10_ExpiredSessionEnds ==
  /\ JoinEndsExpired
  /\ SweepEndsExpired
  /\ ((sess.status = "active" /\ Expired) ~> (sess.status = "ended"))

\* the step takes a join for a session id that no session has
MissingJoinTaken == started'.missing # started.missing

\* the step takes a join that finds the session ended
EndedJoinTaken ==
  /\ started'.joins # started.joins /\ started'.missing = started.missing
  /\ sess.status = "ended"

\* C14: a join for a session id that does not exist is answered with the
\* error 'Game session not found' and a join that finds the session ended
\* with 'Game session has ended'; neither changes a player record, the
\* connection mapping or the orb timer, nor leaves a handler at work.
C14_RejectedJoinChangesNothing ==
  [][/\ MissingJoinTaken =>
          /\ \E s \in Sockets :
                emitted' = {Event("error", s, <<"Game session not found">>)}
          /\ UNCHANGED <<sess, playerSessions, orbSpawnTimers, handlers>>
     /\ EndedJoinTaken =>
          /\ \E s \in Sockets :
                emitted' = {Event("error", s, <<"Game session has ended">>)}
          /\ UNCHANGED <<sess, playerSessions, orbSpawnTimers, handlers>>
    ]_vars

\* a join has just been refused by an ended session, after one for an
\* unknown session id was refused
C14_Witness ==
  /\ sess.status = "ended"
  /\ started.missing > 0
  /\ \E s \in Sockets : emitted = {Event("error", s, <<"Game session has ended">>)}

(***************************************************************************)
(* Properties of the life of a session                                     *)
(***************************************************************************)
\* C11: the status of a session only moves forward: an ended session stays
\* ended, and an active session never goes back to waiting.
C11_StatusForward ==
  [][/\ sess.status = "ended" => sess'.status = "ended"
     /\ sess.status = "active" => sess'.status # "waiting"]_vars

\* C12: a session becomes ended only from active and only when the time
\* since its startTime exceeds its duration, whatever the number of
\* connected players; a session that is not active is never ended.
C12_EndsOnlyOnExpiry ==
  [][(sess.status # "ended" /\ sess'.status = "ended")
       => (sess.status = "active" /\ Expired)]_vars

\* the indices of the connected, alive players of the largest size
LargestConnected(players) ==
  {i \in 1..Len(players) :
     /\ Connected(players[i])
     /\ \A j \in 1..Len(players) :
          Connected(players[j]) => players[j].size <= players[i].size}

\* C13: on the transition to ended the winner is the connected, alive player
\* of the largest size, the first of them in the player list when several
\* are tied; with no connected player the winner stays unset.
C13_WinnerIsFirstLargest ==
  [][(sess.status # "ended" /\ sess'.status = "ended") =>
       LET L == LargestConnected(sess.players)
       IN IF L = {} THEN sess'.winner = sess.winner
          ELSE sess'.winner = sess.players[CHOOSE i \in L : \A j \in L : i <= j].userId
    ]_vars

\* a join or a leave of connection s is still waiting on persistence
InFlightFor(s) ==
  \E k \in HandlerIds :
     handlers[k].kind \in {"join", "leave"} /\ handlers[k].sock = s

JoinedAndLeft(s) == conn[s].joined /\ conn[s].dropped /\ ~InFlightFor(s)

\* C15: once a connection has joined and has then dropped, and both handlers
\* are done, the connection has no entry in the mapping and its player's
\* record is still in the session, not alive and with no connection
\* reference (unless the same user has since joined from another connection).
C15_LeaveClearsConnection ==
  \A s \in Sockets :
     JoinedAndLeft(s) =>
       /\ playerSessions[s] = "none"
       /\ IdxBySocket(sess.players, s) = 0
       /\ IdxByUser(sess.players, conn[s].user) # 0
       /\ LET p == sess.players[IdxByUser(sess.players, conn[s].user)]
          IN p.socketId = NoSock => ~p.isAlive

(***************************************************************************)
(* Properties of the compatibility oracle                                  *)
(***************************************************************************)
SameFilm(a, b) == a.title = b.title /\ a.year = b.year

SeenFilms(user) == user.watchedMovies \cup user.fiveStarMovies

\* C5: canAbsorb answers true exactly when every film of the target's
\* comparison set has a film of the same title and year in the observer's
\* watched or five-star list.
C5_CanAbsorbIffCovered ==
  verdict.observer # NoUser =>
    (verdict.answer <=>
       \A m \in ComparisonSet(users[verdict.target]) :
          \E w \in SeenFilms(users[verdict.observer]) : SameFilm(w, m))

(***************************************************************************)
(* Properties of the orb check                                             *)
(***************************************************************************)
\* the user has a film of the same title, or of the same address, on a list
Covered(user, m) ==
  \E w \in SeenFilms(user) :
     \/ normalizeTitle(m.title) # <<>> /\ normalizeTitle(w.title) = normalizeTitle(m.title)
     \/ m.url # "" /\ w.url = m.url

\* the films of the orb under handler k's player that the player has not seen
Uncovered(k) ==
  LET h == handlers[k]
      me == h.gs.players[h.pi]
      oi == FirstOrb(h.gs, me)
  IN IF oi = 0 THEN {}
     ELSE {m \in h.gs.movieOrbs[oi].movies : ~Covered(users[me.userId], m)}

OrbCheckRefused(k) ==
  /\ handlers[k].kind = "move" /\ handlers[k].pc = "seen"
  /\ handlers'[k] # handlers[k]
  /\ Uncovered(k) # {}

\* C16: when the orb under the mover asks for a film the mover has not seen,
\* the check changes nothing in the session (the orb stays, points and size
\* stay), the handler is done, and a failure notice, when one is sent, goes
\* to the mover and lists exactly the films that are not seen.
C16_UncoveredOrbStays ==
  [][\A k \in HandlerIds :
       OrbCheckRefused(k) =>
         LET h == handlers[k]
             me == h.gs.players[h.pi]
             orb == h.gs.movieOrbs[FirstOrb(h.gs, me)]
         IN /\ sess' = sess
            /\ handlers'[k] = Idle
            /\ emitted' \subseteq
                 {Event("orb-consumption-failed", h.sock, <<orb.id, Uncovered(k)>>)}
    ]_vars

\* a notice that lists one of the two films of the first orb
C16_Witness ==
  \E e \in emitted :
     /\ e.name = "orb-consumption-failed"
     /\ e.about[1] = "o1" /\ Cardinality(e.about[2]) = 1
     /\ Len(sess.movieOrbs) = 2

(***************************************************************************)
(* Properties of the rating update                                         *)
(***************************************************************************)
Abs(n) == IF n < 0 THEN -n ELSE n

\* handler k decides an encounter with a winner in this step
Resolves(k) ==
  /\ handlers[k].kind = "move" /\ handlers[k].pc = "loadTarget"
  /\ handlers'[k].kind = "move" /\ handlers'[k].pc = "persist"

\* C17: when an encounter between two users of the same rating is resolved,
\* the rating of the winner and the rating of the loser change by the same
\* amount, whatever the rating, the floor and the ratings next to it included.
C17_EqualRatingsEqualChange ==
  [][\A k \in HandlerIds :
       LET h == handlers[k]
           target == UserStats(h.gs.players[h.ti].userId)
       IN (Resolves(k) /\ h.mu.eloRating = target.eloRating) =>
            Abs(handlers'[k].mu.eloRating - h.mu.eloRating)
              = Abs(handlers'[k].tu.eloRating - target.eloRating)
    ]_vars

(***************************************************************************)
(* Properties of the orb timer                                             *)
(***************************************************************************)
\* C18: whatever joins are made, and however their saves interleave, the
\* session has at most one interval timer and at most one seeding run: the
\* first call of startOrbSpawning makes them and every later call does
\* nothing.
C18_OneOrbTimer ==
  /\ orbSpawnTimers.intervals <= 1
  /\ orbSpawnTimers.seedings <= 1

\* two connections have joined, each through its own call
C18_Witness ==
  /\ orbSpawnTimers.intervals = 1
  /\ \A s \in Sockets : playerSessions[s] = SessionId /\ conn[s].joined

(***************************************************************************)
(* Properties of points and size                                           *)
(***************************************************************************)
\* C19: the points of every player are at least 0 and the size of every
\* player is at least the minimum size, whatever moves, encounters and orb
\* consumptions have happened.
C19_PointsAndSizeFloors ==
  \A i \in 1..Len(sess.players) :
     sess.players[i].points >= 0 /\ sess.players[i].size >= minSize

\* a loss has brought a player from above the floors down to both of them
C19_Witness ==
  \E i \in 1..Len(sess.players) :
     /\ sess.players[i].points = 0 /\ sess.players[i].size = minSize
     /\ \E u \in Users : winTimes[u] # <<>>

(***************************************************************************)
(* Properties of interleaved encounters                                    *)
(***************************************************************************)
\* handler k has decided an encounter from its snapshot and has writes of it
\* still to make
Applying(k) == handlers[k].kind = "move" /\ handlers[k].pc = "persist"

\* the winner of handler k's encounter, as stored now
StoredWinner(k) ==
  LET h == handlers[k]
      w == IF h.moverWins THEN h.pi ELSE h.ti
  IN sess.players[FirstIdx({i \in 1..Len(sess.players) :
                              sess.players[i].id = h.gs.players[w].id})]

\* since handler k loaded the session another event's resolution of the
\* same overlap has landed
AlreadyResolved(k) ==
  LET h == handlers[k]
      w == IF h.moverWins THEN h.pi ELSE h.ti
  IN /\ "session" \in h.pend
     /\ StoredWinner(k).absorptions >= h.gs.players[w].absorptions

\* C20: when the movement events of both players observe the same overlap,
\* the encounter is applied once: an event whose handler loaded the session
\* before the other event's resolution landed does not apply a resolution
\* of its own (points, absorption counter, ratings) on top of it.
C20_OverlapResolvedOnce ==
  \A k \in HandlerIds : Applying(k) => ~AlreadyResolved(k)

(***************************************************************************)
(* Properties of the battle halt                                           *)
(***************************************************************************)
\* handler k's position update is about to land for a player whose stored
\* record is inside a halt window
LandsWhileHalted(k) ==
  LET di == IdxBySocket(sess.players, handlers[k].sock)
  IN /\ handlers[k].kind = "move" /\ handlers[k].pc = "pos"
     /\ handlers'[k] # handlers[k]
     /\ di # 0
     /\ InFuture(sess.players[di].battleHaltUntil, now)

\* C21: while the stored battleHaltUntil of a player is in the future, a
\* movement event of that player leaves the stored position as it is and
\* goes on to neither an encounter nor an orb check, also when the event
\* was received before the halt of the encounter was written.
C21_HaltedPlayerStays ==
  [][\A k \in HandlerIds :
       LandsWhileHalted(k) =>
         LET di == IdxBySocket(sess.players, handlers[k].sock)
         IN /\ sess'.players[di].x = sess.players[di].x
            /\ sess'.players[di].y = sess.players[di].y
            /\ handlers'[k] = Idle
    ]_vars

\* handler k has started an encounter (the halts are written and battle-start
\* is sent) and takes the step that decides it
Decides(k) ==
  /\ handlers[k].kind = "move" /\ handlers[k].pc = "loadTarget"
  /\ handlers'[k] # handlers[k]

\* C22: an encounter that was started ends in an outcome: the handler goes
\* on to write the cooldowns of a stalemate or the transfer of a win, and
\* never leaves the encounter with no outcome and no battle cooldown.
C22_StartedEncounterDecided ==
  [][\A k \in HandlerIds :
       Decides(k) =>
         /\ handlers'[k].kind = "move"
         /\ handlers'[k].pc \in {"stalemate", "persist"}
    ]_vars

(***************************************************************************)
(* Properties of the encounter scan                                        *)
(***************************************************************************)
\* the records of the loaded document that handler k's player may fight:
\* connected, alive, of another connection, not protected, not halted, not
\* on cooldown, and no further away than half the sum of the two sizes
Qualifying(k) ==
  LET h == handlers[k]
      me == h.gs.players[h.pi]
  IN {i \in 1..Len(h.gs.players) :
        LET p == h.gs.players[i]
        IN /\ Connected(p) /\ p.socketId # h.sock
           /\ ~(p.spawnProtectedUntil > now)
           /\ ~(p.battleHaltUntil > now)
           /\ ~(p.battleCooldownUntil > now)
           /\ 4 * ((me.x - p.x) * (me.x - p.x) + (me.y - p.y) * (me.y - p.y))
                <= (me.size + p.size) * (me.size + p.size)}

StartsEncounter(k) ==
  /\ handlers[k].kind = "move" /\ handlers[k].pc = "pos"
  /\ handlers'[k].kind = "move" /\ handlers'[k].pc = "halt"

\* handler k is past its scan and takes a step
Scanned(k) ==
  /\ handlers[k].kind = "move" /\ handlers[k].pc # "pos"
  /\ handlers'[k] # handlers[k]

\* C23: the encounter a movement event starts is with the first record in
\* the order of the player list that qualifies, not with a nearer one
\* further down the list; and once its scan is over the event starts no
\* other encounter.
C23_FirstQualifyingTarget ==
  [][\A k \in HandlerIds :
       /\ StartsEncounter(k) =>
            /\ Qualifying(k) # {}
            /\ handlers'[k].ti = FirstIdx(Qualifying(k))
       /\ Scanned(k) => ~(handlers'[k].kind = "move" /\ handlers'[k].pc = "halt")
    ]_vars

\* an encounter with the second record while the third is nearer, and one
\* with the third while the second does not qualify
C23_Witness ==
  \E k \in HandlerIds :
     /\ handlers[k].kind = "move" /\ handlers[k].pc = "halt" /\ handlers[k].sock = "s1"
     /\ Len(sess.players) = 3
     /\ \/ handlers[k].ti = 2 /\ sess.players[3].x = 100 /\ sess.players[2].x = 110
        \/ handlers[k].ti = 3 /\ sess.players[2].x = 110 /\ ~Connected(sess.players[2])

(***************************************************************************)
(* Properties of the outcome of an encounter                               *)
(***************************************************************************)
\* the users of handler k's encounter
MoverOf(k) == users[handlers[k].gs.players[handlers[k].pi].userId]
TargetOf(k) == users[handlers[k].gs.players[handlers[k].ti].userId]

BothAble(k) == canAbsorb(MoverOf(k), TargetOf(k)) /\ canAbsorb(TargetOf(k), MoverOf(k))
NeitherAble(k) == ~canAbsorb(MoverOf(k), TargetOf(k)) /\ ~canAbsorb(TargetOf(k), MoverOf(k))

\* after the step handler k holds the battle cooldown for both players and
\* has no win to write
CooldownOnly(k) ==
  LET h == handlers[k]
      g == handlers'[k]
  IN /\ g.kind = "move" /\ g.pc # "persist"
     /\ g.gs.players[h.pi].battleCooldownUntil = h.nowTs + battleCooldownMs
     /\ g.gs.players[h.ti].battleCooldownUntil = h.nowTs + battleCooldownMs
     /\ \A i \in {h.pi, h.ti} :
          /\ g.gs.players[i].points = h.gs.players[i].points
          /\ g.gs.players[i].size = h.gs.players[i].size
          /\ g.gs.players[i].absorptions = h.gs.players[i].absorptions

\* C24: when each of the two users has seen the films of the other, the
\* encounter is not decided at once: both players get the battle cooldown
\* and nothing of their points, size, absorptions or ratings is changed.
C24_BothAbleNoAbsorption ==
  [][\A k \in HandlerIds :
       (Decides(k) /\ BothAble(k)) => (CooldownOnly(k) /\ users' = users)
    ]_vars

\* the films of b's five-star list of which a has seen none of the same
\* title and year
MissingOf(a, b) ==
  {m \in b.fiveStarMovies : ~\E w \in SeenFilms(a) : SameFilm(w, m)}

\* handler k writes the cooldowns of a stalemate
StalemateLands(k) ==
  /\ handlers[k].kind = "move" /\ handlers[k].pc = "stalemate"
  /\ handlers'[k] # handlers[k]

\* every field of a player record but the battle cooldown
SameButCooldown(p, q) == [p EXCEPT !.battleCooldownUntil = 0] = [q EXCEPT !.battleCooldownUntil = 0]

\* C25: when neither user has seen the films of the other the encounter is
\* a stalemate: both records get battleCooldownUntil = the time of the
\* encounter plus battleCooldownMs and nothing else of the session, the
\* users or the absorption cooldowns changes; each of the two is sent no
\* more than missingShown films, all of them films of the other's list
\* they have not seen.
C25_StalemateOnlyCooldown ==
  [][\A k \in HandlerIds :
       /\ (Decides(k) /\ NeitherAble(k)) =>
            (handlers'[k].pc = "stalemate" /\ CooldownOnly(k))
       /\ StalemateLands(k) =>
            LET h == handlers[k]
                me == h.gs.players[h.pi]
                it == h.gs.players[h.ti]
            IN /\ Len(sess'.players) = Len(sess.players)
               /\ \A i \in 1..Len(sess.players) :
                    /\ SameButCooldown(sess'.players[i], sess.players[i])
                    /\ sess'.players[i].battleCooldownUntil =
                         IF sess.players[i].id \in {me.id, it.id}
                         THEN h.nowTs + battleCooldownMs
                         ELSE sess.players[i].battleCooldownUntil
               /\ [sess' EXCEPT !.players = <<>>] = [sess EXCEPT !.players = <<>>]
               /\ users' = users
               /\ absorptionCooldowns' = absorptionCooldowns
               /\ \A e \in emitted' :
                    e.name = "battle-missing" =>
                      /\ Cardinality(e.about[3]) <= missingShown
                      /\ e.about[3] \subseteq
                           IF e.to = me.socketId
                           THEN MissingOf(users[me.userId], users[it.userId])
                           ELSE MissingOf(users[it.userId], users[me.userId])
               /\ \E e \in emitted' : e.name = "battle-missing" /\ e.to = me.socketId
               /\ \E e \in emitted' : e.name = "battle-missing" /\ e.to = it.socketId
    ]_vars

\* a stalemate has landed whose notice shows missingShown films of more
C25_Witness ==
  /\ \E e \in emitted :
        e.name = "battle-missing" /\ Cardinality(e.about[3]) = missingShown
  /\ \A i \in 1..Len(sess.players) : sess.players[i].battleCooldownUntil # 0
  /\ Cardinality(users["u2"].fiveStarMovies) > missingShown

(***************************************************************************)
(* Properties of the end of a session, when it is triggered again          *)
(***************************************************************************)
SessionEndedSent(E) == \E e \in E : e.name = "session-ended"

\* C26: the end of a session takes effect once, however often it is
\* triggered: no user's games-played count is raised by more than the one
\* game, and once the session is stored as ended its winner is not written
\* again and session-ended is not broadcast again.
C26_EndsOnce ==
  /\ [](\A u \in Users : users[u].gamesPlayed <= 1)
  /\ [][sess.status = "ended" =>
          /\ sess'.winner = sess.winner
          /\ (SessionEndedSent(emitted) => ~SessionEndedSent(emitted'))]_vars

(***************************************************************************)
(* Properties of the orb notices                                           *)
(***************************************************************************)
\* handler k ends its orb check with the notices of a consumption
AnnouncesOrb(k) ==
  /\ handlers[k].kind = "move" /\ handlers[k].pc = "consume"
  /\ handlers'[k] # handlers[k]
  /\ \E e \in emitted' : e.name \in {"orb-consumed", "orb-removed"}

\* C27: when orb-consumed or orb-removed is sent for an orb, the stored
\* session has the orb no more and the stored record of the consumer has
\* the points and the size with the credit, also when the consumer's
\* connection dropped while the check was in flight.
C27_AnnouncedOrbIsConsumed ==
  [][\A k \in HandlerIds :
       AnnouncesOrb(k) =>
         LET h == handlers[k]
             me == h.gs.players[h.pi]
             ci == FirstIdx({i \in 1..Len(sess'.players) : sess'.players[i].id = me.id})
         IN /\ \A i \in 1..Len(sess'.movieOrbs) : sess'.movieOrbs[i].id # h.orbId
            /\ ci # 0
            /\ sess'.players[ci].points = h.newPoints
            /\ sess'.players[ci].size = h.newSize
    ]_vars

(***************************************************************************)
(* Properties of the protection window                                     *)
(***************************************************************************)
\* the save of a join of handler k succeeds
JoinLands(k) ==
  /\ handlers[k].kind = "join" /\ handlers[k].pc = "save"
  /\ handlers'[k] # handlers[k]
  /\ VersionMatches(handlers[k])

\* C28: after a join that succeeded, of a new player or of a player who was
\* in the session before, the stored spawnProtectedUntil of the player is
\* the time of the join plus spawnProtectionMs.
C28_JoinProtects ==
  [][\A k \in HandlerIds :
       JoinLands(k) =>
         LET ji == IdxByUser(sess'.players, handlers[k].user)
         IN /\ ji # 0
            /\ sess'.players[ji].spawnProtectedUntil = handlers[k].at + spawnProtectionMs
    ]_vars

(***************************************************************************)
(* Properties of the rating update of an encounter                         *)
(***************************************************************************)
\* handler k lands one of the writes of its encounter
WriteLands(k) == Applying(k) /\ handlers'[k] # handlers[k]

\* C29: when an encounter is resolved the new rating of each of the two
\* users is one update of the rating the handler loaded, against the rating
\* it loaded for the other one; each of the two is then saved once, with
\* that rating.
C29_RatingsFromPriorRatings ==
  [][\A k \in HandlerIds :
       /\ Resolves(k) =>
            LET h == handlers[k]
                g == handlers'[k]
                target == UserStats(h.gs.players[h.ti].userId)
            IN /\ g.mu.eloRating = updateElo(h.mu.eloRating, target.eloRating, g.moverWins)
               /\ g.tu.eloRating = updateElo(target.eloRating, h.mu.eloRating, ~g.moverWins)
               /\ g.pend = {"winnerUser", "loserUser", "session"}
       /\ WriteLands(k) =>
            LET h == handlers[k]
                wu == h.gs.players[IF h.moverWins THEN h.pi ELSE h.ti].userId
                lu == h.gs.players[IF h.moverWins THEN h.ti ELSE h.pi].userId
                wnew == IF h.moverWins THEN h.mu.eloRating ELSE h.tu.eloRating
                lnew == IF h.moverWins THEN h.tu.eloRating ELSE h.mu.eloRating
                landed == h.pend \ (IF handlers'[k].kind = "move" /\ handlers'[k].pc = "persist"
                                    THEN handlers'[k].pend ELSE {})
            IN /\ Cardinality(landed) = 1
               /\ "winnerUser" \in landed =>
                    users'[wu].eloRating = wnew /\ users'[lu].eloRating = users[lu].eloRating
               /\ "loserUser" \in landed =>
                    users'[lu].eloRating = lnew /\ users'[wu].eloRating = users[wu].eloRating
               /\ "session" \in landed =>
                    \A u \in Users : users'[u].eloRating = users[u].eloRating
    ]_vars

\* both users of an encounter are saved, with ratings that moved apart from
\* the same rating
C29_Witness ==
  /\ users["u1"].eloRating = defaultElo + (kFactor \div 2)
  /\ users["u2"].eloRating = defaultElo - (kFactor \div 2)
  /\ winTimes["u1"] # <<>>

(***************************************************************************)
(* Properties of the connection mapping                                    *)
(***************************************************************************)
\* C30: a connection is mapped to the session in playerSessions exactly when
\* a player record of the session has that connection as its connection
\* reference; a user who joins from a second connection leaves no mapping of
\* the first connection behind.
C30_MappingMatchesRecords ==
  \A s \in Sockets :
     playerSessions[s] = SessionId <=> IdxBySocket(sess.players, s) # 0

(***************************************************************************)
(* Properties of the start of a session                                    *)
(***************************************************************************)
\* C31: the first join that succeeds on a waiting session makes it active
\* and stores the time of the join as startTime; a startTime that is stored
\* is never changed by a later join; and a session stored as active has a
\* startTime.
C31_StartTimeSetOnce ==
  [][/\ \A k \in HandlerIds :
          (JoinLands(k) /\ sess.status = "waiting") =>
             (sess'.status = "active" /\ sess'.startTime = handlers[k].at)
     /\ sess.startTime # 0 => sess'.startTime = sess.startTime
     /\ sess'.status = "active" => sess'.startTime # 0
    ]_vars

(***************************************************************************)
(* Properties of the match of a film against the seen set                  *)
(***************************************************************************)
\* the user has a film of the same normalized title and the same year, or of
\* the same address, on a list
SeenByTitleAndYear(user, m) ==
  \E w \in SeenFilms(user) :
     \/ /\ normalizeTitle(w.title) = normalizeTitle(m.title)
        /\ w.year = m.year
     \/ m.url # "" /\ w.url = m.url

\* handler k's orb check finds the requirement of the orb met
OrbCheckAccepts(k) ==
  /\ handlers[k].kind = "move" /\ handlers[k].pc = "seen"
  /\ handlers'[k].kind = "move" /\ handlers'[k].pc = "consume"

\* C32: the orb check takes a film of the orb as seen only when the player
\* has seen a film of the same normalized title and the same year, or of the
\* same address; a film of the same title and another year does not count.
C32_SeenNeedsTitleAndYear ==
  [][\A k \in HandlerIds :
       OrbCheckAccepts(k) =>
         LET h == handlers[k]
             me == h.gs.players[h.pi]
             orb == h.gs.movieOrbs[FirstOrb(h.gs, me)]
         IN \A m \in orb.movies : SeenByTitleAndYear(users[me.userId], m)
    ]_vars

(***************************************************************************)
(* Properties of the missing titles                                        *)
(***************************************************************************)
\* C33: canAbsorb(observer, target) answers true exactly when
\* getMissingMovies(observer, target) is empty, so an answer of false comes
\* with at least one missing title.
C33_CanAbsorbIffNothingMissing ==
  verdict.observer # NoUser =>
    (verdict.answer <=>
       getMissingMovies(users[verdict.observer], users[verdict.target]) = {})

(***************************************************************************)
(* Properties of the scan of the orbs                                      *)
(***************************************************************************)
\* the orbs of handler k's loaded pool its player is within reach of
Under(k) ==
  LET h == handlers[k]
      me == h.gs.players[h.pi]
  IN {i \in 1..Len(h.gs.movieOrbs) :
        Overlaps(me.x, me.y, me.size,
                 h.gs.movieOrbs[i].x, h.gs.movieOrbs[i].y, h.gs.movieOrbs[i].size)}

\* the ids of the orbs this step takes out of the stored pool
Gone ==
  {sess.movieOrbs[i].id : i \in 1..Len(sess.movieOrbs)} \
     {sess'.movieOrbs[i].id : i \in 1..Len(sess'.movieOrbs)}

\* the first orb in pool order under handler k's player asks for a film the
\* player has not seen
HeadUnmet(k) ==
  LET h == handlers[k]
      me == h.gs.players[h.pi]
  IN /\ Under(k) # {}
     /\ \E i \in Under(k) :
          /\ \A j \in Under(k) : i <= j
          /\ \E m \in h.gs.movieOrbs[i].movies :
                ~seenHas(getSeenSet(users[me.userId]), m)

\* C34: a movement event takes at most one orb, and only the first orb in
\* pool order its player overlaps: a step of the event takes an orb only as
\* its last step, the orb is that first one, and when that orb asks for a
\* film the player has not seen the scan ends with the pool as it was.
C34_OnlyFirstOverlappingOrb ==
  [][\A k \in HandlerIds :
       (handlers[k].kind = "move" /\ handlers'[k] # handlers[k]) =>
          /\ Cardinality(Gone) <= 1
          /\ Gone # {} => /\ handlers[k].pc = "consume"
                         /\ handlers'[k] = Idle
                         /\ \E i \in Under(k) :
                              /\ \A j \in Under(k) : i <= j
                              /\ Gone = {handlers[k].gs.movieOrbs[i].id}
          /\ (handlers[k].pc = "seen" /\ HeadUnmet(k)) =>
                (handlers'[k] = Idle /\ sess' = sess)
    ]_vars

\* the first orb was refused while the player has seen the films of the
\* second orb under it, and both orbs are still there
C34_Witness ==
  /\ Len(sess.movieOrbs) = 2
  /\ \E e \in emitted :
        /\ e.name = "orb-consumption-failed"
        /\ e.about[1] = sess.movieOrbs[1].id
  /\ \A m \in sess.movieOrbs[2].movies : seenHas(getSeenSet(users["u1"]), m)
  /\ \A i \in 1..2 :
        Overlaps(sess.players[1].x, sess.players[1].y, sess.players[1].size,
                 sess.movieOrbs[i].x, sess.movieOrbs[i].y, sess.movieOrbs[i].size)

\* an orb was taken while the other orb under the player stays
C34_WitnessTaken ==
  /\ Len(sess.movieOrbs) = 1
  /\ \E e \in emitted : e.name = "orb-removed"
  /\ Overlaps(sess.players[1].x, sess.players[1].y, sess.players[1].size,
              sess.movieOrbs[1].x, sess.movieOrbs[1].y, sess.movieOrbs[1].size)

(***************************************************************************)
(* Properties of the orb pool                                              *)
(***************************************************************************)
\* C35: the pool of the session never holds more than maxMovieOrbs orbs,
\* however spawn callbacks and orb consumptions interleave.
C35_PoolWithinLimit == Len(sess.movieOrbs) <= maxMovieOrbs

(***************************************************************************)
(* Properties of the orb interval at the end of the session                *)
(***************************************************************************)
\* the ids of the orbs of a pool
OrbIdsOf(pool) == {pool[i].id : i \in 1..Len(pool)}

\* the step begins a callback of the orb interval
IntervalFires == started'.spawns # started.spawns

\* C36: once the session is stored as ended no interval is kept for it and
\* none fires, and no orb comes into its pool, not even from a callback that
\* loaded the session while it was active.
C36_EndedStopsSpawning ==
  [][/\ sess'.status = "ended" => orbSpawnTimers'.intervals = 0
     /\ sess.status = "ended" =>
          /\ ~IntervalFires
          /\ OrbIdsOf(sess'.movieOrbs) \subseteq OrbIdsOf(sess.movieOrbs)
    ]_vars

(***************************************************************************)
(* Properties of the guards of the orb check                               *)
(***************************************************************************)
\* handler k is in an orb check that got past the guards
Checking(hs, k) == hs[k].kind = "move" /\ hs[k].pc \in {"seen", "consume"}

\* the player record handler k acts for
CheckedPlayer(hs, k) == hs[k].gs.players[hs[k].pi].id

\* C37: at most one orb check of a player is in progress at a time; a check
\* that gets past the guards comes 200 ms or more after the check of that
\* player that got past them before; and a check that finishes leaves the
\* in-flight flag of its connection cleared.
C37_OneOrbCheckPerPlayer ==
  [][\A k \in HandlerIds :
       /\ (Checking(handlers', k) /\ ~Checking(handlers, k)) =>
            /\ \A j \in HandlerIds \ {k} :
                  Checking(handlers, j) =>
                     CheckedPlayer(handlers, j) # CheckedPlayer(handlers', k)
            /\ \A s \in Sockets :
                  orbCheckThrottle[s] # 0 => now - orbCheckThrottle[s] >= orbCheckThrottleMs
       /\ (Checking(handlers, k) /\ ~Checking(handlers', k)) =>
            ~orbCheckInFlight'[handlers[k].gs.players[handlers[k].pi].socketId]
    ]_vars

(***************************************************************************)
(* Properties of the absorption counter                                    *)
(***************************************************************************)
\* the stored absorptions of the player with the id, in a list of records
AbsorptionsOf(players, id) ==
  players[FirstIdx({i \in 1..Len(players) : players[i].id = id})].absorptions

\* handler k's write of the session, the one that carries the counter, lands
SessionWriteLands(k) ==
  /\ Applying(k)
  /\ "session" \in handlers[k].pend
  /\ handlers'[k] # handlers[k]
  /\ handlers'[k].kind = "move" /\ handlers'[k].pc = "persist" =>
        "session" \notin handlers'[k].pend

\* C38: the stored absorptions of a player never go down, and go up by one
\* with each encounter the player wins, however movement events interleave.
C38_AbsorptionsCountWins ==
  [][/\ \A i \in 1..Len(sess.players) :
          AbsorptionsOf(sess'.players, sess.players[i].id) >= sess.players[i].absorptions
     /\ \A k \in HandlerIds :
          SessionWriteLands(k) =>
            LET h == handlers[k]
                w == IF h.moverWins THEN h.pi ELSE h.ti
                id == h.gs.players[w].id
            IN AbsorptionsOf(sess'.players, id) = AbsorptionsOf(sess.players, id) + 1
    ]_vars

(***************************************************************************)
(* Properties of a rejected write                                          *)
(***************************************************************************)
\* a write of handler k is rejected in this step
WriteFails(k) ==
  /\ started'.failures # started.failures
  /\ handlers'[k] # handlers[k]

\* what tells the clients of the outcome of a movement event
OutcomeEvents ==
  {"player-moved", "player-absorbed", "you-were-absorbed", "absorption-successful",
   "battle-missing", "orb-consumed", "orb-removed"}

\* a write of handler k's event has landed: every step after the first
\* follows the position update
LandedBefore(k) == handlers[k].pc # "pos"

\* C39: when a write of a movement event is rejected the event is dropped:
\* the handler is done, nothing the event wrote is in the stored session or
\* users, no event tells of an outcome, and the failure is caught.
C39_FailedWriteDropsEvent ==
  [][\A k \in HandlerIds :
       WriteFails(k) =>
          /\ sess' = sess /\ users' = users
          /\ ~LandedBefore(k)
          /\ handlers'[k] = Idle
          /\ \A e \in emitted' : e.name \notin OutcomeEvents \cup {"unhandledRejection"}
    ]_vars

====
